---- MODULE Spec2Model ----
(***************************************************************************)
(* Department manager of ccl-magic: the registry (Manager), the task       *)
(* router (TaskRouter), the locking discipline between them, the health    *)
(* checker (HealthChecker) and the auto-scaler (AutoScaler).               *)
(*                                                                         *)
(* Ids are small integers; 0 stands for Go's empty string "" where an id   *)
(* is optional (Task.ID before generation, Task.AssignedMember).  Text     *)
(* (titles, descriptions, keywords, skills) is a sequence of characters so *)
(* that strings.ToLower, strings.Contains and strings.EqualFold are        *)
(* computed, not assumed.  Timestamps are values of the clock `now`; 0 is  *)
(* a nil *time.Time.                                                       *)
(***************************************************************************)
EXTENDS Integers, Sequences, FiniteSets, TLC

VARIABLES config, members, memberStats, departmentStats, tasks, now, ret,
          mu, calls, healthStatus, scaleCooldown, scaler, loops, scalingConfig

vars == <<config, members, memberStats, departmentStats, tasks, now, ret,
          mu, calls, healthStatus, scaleCooldown, scaler, loops, scalingConfig>>

(* the state of the health checker and of the auto-scaler, and where their *)
(* Start loops are                                                         *)
monitors == <<healthStatus, scaleCooldown, scaler, loops>>

registry == <<members, memberStats, departmentStats, tasks>>

-----------------------------------------------------------------------------
(* Bounds of the model *)

MaxMemberId == 2
MaxTaskId == 2
MaxCap == 2
MaxTime == 6

MemberIds == 1..MaxMemberId
TaskIds == 1..MaxTaskId

-----------------------------------------------------------------------------
(* Enumerations of types.go *)

(* AutoScalingConfig: thresholds in percent; RoleScaling is not set *)
ScaleUpThreshold == 80

ScaleDownThreshold == 20

MaxMembersPerDept == 2

NoRoleScaling == [r \in {} |-> 0]

DefaultScalingConfig ==
    [ScaleUpThreshold |-> ScaleUpThreshold, ScaleDownThreshold |-> ScaleDownThreshold,
     MaxMembersPerDept |-> MaxMembersPerDept, RoleScaling |-> NoRoleScaling]

MemberStatuses == {"online", "busy", "offline", "unhealthy"}

TaskStatuses == {"queued", "assigned", "in_progress", "completed", "failed", "blocked"}

Roles == {"developer", "lead_dev", "qa"}

isLeadRole(role) == role \in {"lead_technical", "lead_ba", "lead_dev", "lead_test"}

(* The departments of the registry: two of setupDefaultDepartments, with    *)
(* member bounds small enough for the capacity check to be reached.        *)
DeptIds == {"dept-dev", "dept-qa"}

Departments ==
    [d \in DeptIds |->
        IF d = "dept-dev"
        THEN [Type |-> "development", MaxMembers |-> 2, MinMembers |-> 1, AutoScale |-> TRUE]
        ELSE [Type |-> "qa", MaxMembers |-> 1, MinMembers |-> 0, AutoScale |-> TRUE]]

-----------------------------------------------------------------------------
(* Text *)

LowerChar(c) ==
    CASE c = "F" -> "f"
      [] c = "G" -> "g"
      [] c = "L" -> "l"
      [] OTHER -> c

ToLower(s) == [i \in 1..Len(s) |-> LowerChar(s[i])]

Contains(s, substr) ==
    \E i \in 0..(Len(s) - Len(substr)) : SubSeq(s, i + 1, i + Len(substr)) = substr

EqualFold(s, t) == ToLower(s) = ToLower(t)

(* the keyword test of determineDepartment and isMemberSuitable *)
MentionsKeyword(task, keyword) ==
    \/ Contains(ToLower(task.Description), ToLower(keyword))
    \/ Contains(ToLower(task.Title), ToLower(keyword))

TxtFixLoginBug == <<"F", "i", "x", " ", "l", "o", "g", "i", "n", " ", "b", "u", "g">>
TxtLeadReview == <<"L", "e", "a", "d", " ", "r", "e", "v", "i", "e", "w">>
TxtEmpty == <<>>
KwLead == <<"l", "e", "a", "d">>
KwBug == <<"b", "u", "g">>
SkillGo == <<"g", "o">>
SkillGoCap == <<"G", "o">>

-----------------------------------------------------------------------------
(* TaskRoutingConfig (types.go).  A Go map is a function on its key set;   *)
(* a nil map is the function with no keys.                                 *)

NoRules == [k \in {} |-> <<>>]

RoutingConfig(strategy, fallback, roleRules) ==
    [Strategy |-> strategy, FallbackEnabled |-> fallback, RoleRules |-> roleRules,
     DepartmentRules |-> NoRules, DefaultDepartment |-> ""]

Strategies == {"round-robin", "load-based", "skill-based", "role-based"}

Configs ==
    {RoutingConfig("load-based", FALSE, [r \in {"lead_dev"} |-> <<KwLead>>]),
     RoutingConfig("role-based", TRUE, NoRules),
     RoutingConfig("skill-based", FALSE, NoRules)}

-----------------------------------------------------------------------------
(* Helpers of the registry *)

Put(map, key, value) == [k \in DOMAIN map \cup {key} |-> IF k = key THEN value ELSE map[k]]

Delete(map, key) == [k \in DOMAIN map \ {key} |-> map[k]]

(* append(s[:i], s[i+1:]...) at the first i with s[i] = x, as in the loops *)
(* of updateMemberTaskCompletion and ReassignTask                          *)
RemoveFirst(s, x) ==
    IF \E i \in 1..Len(s) : s[i] = x
    THEN LET i == CHOOSE k \in 1..Len(s) : s[k] = x /\ \A j \in 1..(k - 1) : s[j] # x
         IN SubSeq(s, 1, i - 1) \o SubSeq(s, i + 1, Len(s))
    ELSE s

(* countDepartmentMembers that finds no member *)
countDepartmentMembersNone(ms, departmentID) == 0

countDepartmentMembers(ms, departmentID) ==
    Cardinality({i \in DOMAIN ms : ms[i].DepartmentID = departmentID})

(* updateDepartmentStats that adds to the active count it finds *)
updateDepartmentStatsAdded(dstats, ms, departmentID) ==
    LET inDept == {i \in DOMAIN ms : ms[i].DepartmentID = departmentID}
    IN [dstats EXCEPT ![departmentID] =
            [TotalMembers |-> Cardinality(DOMAIN ms),
             ActiveMembers |-> dstats[departmentID].ActiveMembers
                               + Cardinality({i \in inDept : ms[i].Status \in {"online", "busy"}}),
             RoleDistribution |-> [r \in Roles |-> Cardinality({i \in inDept : ms[i].Role = r})]]]

updateDepartmentStats(dstats, ms, departmentID) ==
    LET inDept == {i \in DOMAIN ms : ms[i].DepartmentID = departmentID}
    IN [dstats EXCEPT ![departmentID] =
            [TotalMembers |-> Cardinality(DOMAIN ms),
             ActiveMembers |-> Cardinality({i \in inDept : ms[i].Status \in {"online", "busy"}}),
             RoleDistribution |-> [r \in Roles |-> Cardinality({i \in inDept : ms[i].Role = r})]]]

NewMemberStats == [TotalTasks |-> 0, CompletedTasks |-> 0, FailedTasks |-> 0, CurrentLoad |-> 0]

(* int(stats.SuccessRate * 5), SuccessRate = CompletedTasks / TotalTasks   *)
(* as last stored by updateMemberTaskCompletion (0 before any completion)  *)
SuccessScore(st) ==
    IF st.TotalTasks = 0 THEN 0 ELSE (5 * st.CompletedTasks) \div st.TotalTasks

(* the state updateMemberTaskCompletion leaves: <<members, memberStats>>   *)
updateMemberTaskCompletion(ms, stats, memberID, taskID, success) ==
    IF memberID \notin DOMAIN ms
    THEN <<ms, stats>>
    ELSE LET left == RemoveFirst(ms[memberID].CurrentTasks, taskID)
             old == stats[memberID]
         IN <<[ms EXCEPT ![memberID].CurrentTasks = left],
              [stats EXCEPT ![memberID] =
                  [TotalTasks |-> old.TotalTasks + 1,
                   CompletedTasks |-> old.CompletedTasks + (IF success THEN 1 ELSE 0),
                   FailedTasks |-> old.FailedTasks + (IF success THEN 0 ELSE 1),
                   CurrentLoad |-> Len(left)]]>>

-----------------------------------------------------------------------------
(* TaskRouter.  The tie-breaks of the code depend on Go's map iteration    *)
(* order, on sort.Slice (not stable) and on rand.Intn, so a selection is   *)
(* the SET of members the call may return.                                 *)

TaskTypeDept ==
    [t \in {"development", "coding", "code-review", "bug", "feature", "deployment",
            "ci-cd", "infrastructure", "monitoring", "security", "compliance", "audit",
            "testing", "qa", "test", "performance"} |->
        CASE t \in {"development", "coding", "code-review", "bug", "feature"} -> "dept-dev"
          [] t \in {"deployment", "ci-cd", "infrastructure", "monitoring"} -> "dept-devops"
          [] t \in {"security", "compliance", "audit"} -> "dept-security"
          [] OTHER -> "dept-qa"]

(* the departments determineDepartment may return; {} when it fails *)
determineDepartment(c, task) ==
    LET byRule == {d \in DOMAIN c.DepartmentRules :
                      \E k \in 1..Len(c.DepartmentRules[d]) :
                          MentionsKeyword(task, c.DepartmentRules[d][k])}
    IN IF byRule # {} THEN byRule
       ELSE IF task.Type \in DOMAIN TaskTypeDept THEN {TaskTypeDept[task.Type]}
       ELSE IF c.DefaultDepartment # "" THEN {c.DefaultDepartment}
       ELSE {}

(* isMemberSuitable without the capacity check of lines 755-758 *)
isMemberSuitableNoCapacity(c, member, task) ==
    /\ member.Status \in {"online", "busy"}
    /\ member.Role \in DOMAIN c.RoleRules =>
          \A k \in 1..Len(c.RoleRules[member.Role]) :
              MentionsKeyword(task, c.RoleRules[member.Role][k])
    /\ \A skill \in task.RequiredSkills :
          \E memberSkill \in member.Specializations : EqualFold(memberSkill, skill)
    /\ task.AssignedRole # "" => member.Role = task.AssignedRole

isMemberSuitable(c, member, task) ==
    /\ member.Status \in {"online", "busy"}
    /\ Len(member.CurrentTasks) < member.MaxConcurrent
    /\ member.Role \in DOMAIN c.RoleRules =>
          \A k \in 1..Len(c.RoleRules[member.Role]) :
              MentionsKeyword(task, c.RoleRules[member.Role][k])
    /\ \A skill \in task.RequiredSkills :
          \E memberSkill \in member.Specializations : EqualFold(memberSkill, skill)
    /\ task.AssignedRole # "" => member.Role = task.AssignedRole

(* ListMembers(departmentID), as a set of member ids *)
ListMembers(ms, departmentID) ==
    {i \in DOMAIN ms : departmentID = "" \/ ms[i].DepartmentID = departmentID}

Load(ms, i) == Len(ms[i].CurrentTasks)

(* selectByLoad, line 838: minLoad := 999 *)
minLoad == 999

(* selectByLoad: the members it can return, 0 for nil.  A candidate is     *)
(* selected when its load is below the least load met so far, which is     *)
(* minLoad at the start; candidates are listed in map order.               *)
selectByLoad(ms, candidates) ==
    LET below == {i \in candidates : Load(ms, i) < minLoad}
    IN IF below = {}
       THEN {0}
       ELSE {i \in below : \A j \in below : Load(ms, i) <= Load(ms, j)}

selectRoundRobin(ms, candidates) ==
    {i \in candidates : \A j \in candidates : Load(ms, i) <= Load(ms, j)}

SkillScore(ms, stats, task, i) ==
    10 * Cardinality({skill \in task.RequiredSkills :
                         \E memberSkill \in ms[i].Specializations : EqualFold(memberSkill, skill)})
    + (ms[i].MaxConcurrent - Load(ms, i)) * 2
    + (IF i \in DOMAIN stats THEN SuccessScore(stats[i]) ELSE 0)

selectBySkill(ms, stats, task, candidates) ==
    {i \in candidates :
        \A j \in candidates : SkillScore(ms, stats, task, i) >= SkillScore(ms, stats, task, j)}

selectByRole(ms, task, candidates) ==
    LET roleCandidates == {i \in candidates : ms[i].Role = task.AssignedRole}
        c1 == IF task.AssignedRole # "" /\ roleCandidates # {} THEN roleCandidates ELSE candidates
        leads == {i \in c1 : ms[i].IsLead}
        c2 == IF Contains(ToLower(task.Description), KwLead) \/ task.Priority = "critical"
              THEN (IF leads # {} THEN leads ELSE c1)
              ELSE c1
    IN selectByLoad(ms, c2)

selectMember(c, ms, stats, task, candidates) ==
    CASE c.Strategy = "round-robin" -> selectRoundRobin(ms, candidates)
      [] c.Strategy = "load-based" -> selectByLoad(ms, candidates)
      [] c.Strategy = "skill-based" -> selectBySkill(ms, stats, task, candidates)
      [] c.Strategy = "role-based" -> selectByRole(ms, task, candidates)
      [] OTHER -> selectByLoad(ms, candidates)

(* the outcome of a routing call: what it returns and the objects it left *)
Routed(err, task, ms, stats) == [err |-> err, task |-> task, members |-> ms, memberStats |-> stats]

assignTaskToMember(ms, stats, task, taskID, i) ==
    LET list == Append(ms[i].CurrentTasks, taskID)
    IN Routed("",
              [task EXCEPT !.AssignedMember = i, !.AssignedRole = ms[i].Role,
                           !.Status = "assigned"],
              [ms EXCEPT ![i].CurrentTasks = list,
                         ![i].Status = IF Len(list) >= ms[i].MaxConcurrent THEN "busy" ELSE @],
              IF i \in DOMAIN stats THEN [stats EXCEPT ![i].CurrentLoad = Len(list)] ELSE stats)

fallbackRouting(ms, stats, task, taskID) ==
    LET available == {i \in ListMembers(ms, "") :
                         ms[i].Status = "online" /\ Load(ms, i) < ms[i].MaxConcurrent}
    IN IF available = {}
       THEN {Routed("NoCapacity", task, ms, stats)}
       ELSE {assignTaskToMember(ms, stats, [task EXCEPT !.DepartmentID = ms[i].DepartmentID],
                                taskID, i) : i \in available}

(* RouteTask once the department is known *)
RouteInDepartment(c, ms, stats, task, taskID) ==
    LET listed == ListMembers(ms, task.DepartmentID)
        candidates == {i \in listed : isMemberSuitable(c, ms[i], task)}
    IN IF listed = {}
       THEN {Routed("NoMembers", task, ms, stats)}
       ELSE IF candidates = {}
       THEN (IF c.FallbackEnabled
             THEN fallbackRouting(ms, stats, task, taskID)
             ELSE {Routed("NoSuitableMember", task, ms, stats)})
       ELSE {assignTaskToMember(ms, stats, task, taskID, i) :
                i \in selectMember(c, ms, stats, task, candidates)}

RouteTask(c, ms, stats, task, taskID) ==
    IF task.DepartmentID = ""
    THEN IF determineDepartment(c, task) = {}
         THEN {Routed("Unroutable", task, ms, stats)}
         ELSE UNION {RouteInDepartment(c, ms, stats, [task EXCEPT !.DepartmentID = d], taskID) :
                        d \in determineDepartment(c, task)}
    ELSE RouteInDepartment(c, ms, stats, task, taskID)

-----------------------------------------------------------------------------
(* Manager: one action per call.  In these actions a call runs from its    *)
(* first statement to its return with no other call in between, and the    *)
(* router reads the member map it is handed; which lock each call holds    *)
(* and waits for is the subject of the Locked* actions further down.       *)
(* Every call reads time.Now() and the clock has moved on by the next      *)
(* call; MaxTime bounds the number of calls of a run.                      *)

(* what a call returns: the call, the member or task it was about, the     *)
(* error ("" for nil) and, for "department %s does not exist", the         *)
(* department the message names; event is the event the call published on *)
(* memberEvents or taskEvents before it returned, "" for none              *)
Returned(op, id, err) ==
    [op |-> op, id |-> id, err |-> err, department |-> "", event |-> ""]

Published(op, id, event) ==
    [op |-> op, id |-> id, err |-> "", department |-> "", event |-> event]

DepartmentNotFound(op, id, departmentID) ==
    [op |-> op, id |-> id, err |-> "NotFound", department |-> departmentID, event |-> ""]

(* RegisterMember without the stats entry of lines 238-242 *)
RegisterMemberNoStats(in) ==
    /\ IF in.DepartmentID \notin DeptIds
       THEN /\ ret' = DepartmentNotFound("RegisterMember", in.ID, in.DepartmentID)
            /\ UNCHANGED registry
       ELSE IF /\ Departments[in.DepartmentID].MaxMembers > 0
               /\ countDepartmentMembers(members, in.DepartmentID)
                      >= Departments[in.DepartmentID].MaxMembers
       THEN /\ ret' = Returned("RegisterMember", in.ID, "CapacityExceeded")
            /\ UNCHANGED registry
       ELSE LET member == [in EXCEPT !.JoinedAt = now, !.Status = "online",
                                     !.IsLead = isLeadRole(in.Role)]
                ms == Put(members, in.ID, member)
            IN /\ members' = ms
               /\ departmentStats' = updateDepartmentStats(departmentStats, ms, in.DepartmentID)
               /\ ret' = Published("RegisterMember", in.ID, "Created")
               /\ UNCHANGED <<memberStats, tasks>>
    /\ now < MaxTime
    /\ now' = now + 1
    /\ UNCHANGED <<config, scalingConfig, monitors, mu, calls>>

RegisterMember(in) ==
    /\ IF in.DepartmentID \notin DeptIds
       THEN /\ ret' = DepartmentNotFound("RegisterMember", in.ID, in.DepartmentID)
            /\ UNCHANGED registry
       ELSE IF /\ Departments[in.DepartmentID].MaxMembers > 0
               /\ countDepartmentMembers(members, in.DepartmentID)
                      >= Departments[in.DepartmentID].MaxMembers
       THEN /\ ret' = Returned("RegisterMember", in.ID, "CapacityExceeded")
            /\ UNCHANGED registry
       ELSE LET member == [in EXCEPT !.JoinedAt = now, !.Status = "online",
                                     !.IsLead = isLeadRole(in.Role)]
                ms == Put(members, in.ID, member)
            IN /\ members' = ms
               /\ departmentStats' = updateDepartmentStats(departmentStats, ms, in.DepartmentID)
               /\ memberStats' = Put(memberStats, in.ID, NewMemberStats)
               /\ ret' = Published("RegisterMember", in.ID, "Created")
               /\ UNCHANGED tasks
    /\ now < MaxTime
    /\ now' = now + 1
    /\ UNCHANGED <<config, scalingConfig, monitors, mu, calls>>

(* UnregisterMember without the check of lines 266-269 *)
UnregisterMemberForced(memberID) ==
    /\ IF memberID \notin DOMAIN members
       THEN /\ ret' = Returned("UnregisterMember", memberID, "NotFound")
            /\ UNCHANGED registry
       ELSE LET ms == Delete(members, memberID)
            IN /\ members' = ms
               /\ memberStats' = Delete(memberStats, memberID)
               /\ departmentStats' =
                      updateDepartmentStats(departmentStats, ms, members[memberID].DepartmentID)
               /\ ret' = Published("UnregisterMember", memberID, "Deleted")
               /\ UNCHANGED tasks
    /\ now < MaxTime
    /\ now' = now + 1
    /\ UNCHANGED <<config, scalingConfig, monitors, mu, calls>>

UnregisterMember(memberID) ==
    /\ IF memberID \notin DOMAIN members
       THEN /\ ret' = Returned("UnregisterMember", memberID, "NotFound")
            /\ UNCHANGED registry
       ELSE IF Len(members[memberID].CurrentTasks) > 0
       THEN /\ ret' = Returned("UnregisterMember", memberID, "HasActiveWork")
            /\ UNCHANGED registry
       ELSE LET ms == Delete(members, memberID)
            IN /\ members' = ms
               /\ memberStats' = Delete(memberStats, memberID)
               /\ departmentStats' =
                      updateDepartmentStats(departmentStats, ms, members[memberID].DepartmentID)
               /\ ret' = Published("UnregisterMember", memberID, "Deleted")
               /\ UNCHANGED tasks
    /\ now < MaxTime
    /\ now' = now + 1
    /\ UNCHANGED <<config, scalingConfig, monitors, mu, calls>>

(* UpdateMemberStatus that returns nil for a member it does not find *)
UpdateMemberStatusSilent(memberID, status) ==
    /\ IF memberID \notin DOMAIN members
       THEN /\ ret' = Returned("UpdateMemberStatus", memberID, "")
            /\ UNCHANGED registry
       ELSE LET ms == [members EXCEPT ![memberID].Status = status]
            IN /\ members' = ms
               /\ departmentStats' =
                      updateDepartmentStats(departmentStats, ms, members[memberID].DepartmentID)
               /\ ret' = Published("UpdateMemberStatus", memberID, "Updated")
               /\ UNCHANGED <<memberStats, tasks>>
    /\ now < MaxTime
    /\ now' = now + 1
    /\ UNCHANGED <<config, scalingConfig, monitors, mu, calls>>

UpdateMemberStatus(memberID, status) ==
    /\ IF memberID \notin DOMAIN members
       THEN /\ ret' = Returned("UpdateMemberStatus", memberID, "NotFound")
            /\ UNCHANGED registry
       ELSE LET ms == [members EXCEPT ![memberID].Status = status]
            IN /\ members' = ms
               /\ departmentStats' =
                      updateDepartmentStats(departmentStats, ms, members[memberID].DepartmentID)
               /\ ret' = Published("UpdateMemberStatus", memberID, "Updated")
               /\ UNCHANGED <<memberStats, tasks>>
    /\ now < MaxTime
    /\ now' = now + 1
    /\ UNCHANGED <<config, scalingConfig, monitors, mu, calls>>

(* generateTaskID: "task-<UnixNano>", an id no stored task has; which one *)
(* is immaterial, so the least unused id stands for it                    *)
generateTaskID ==
    {t \in TaskIds \ DOMAIN tasks : \A u \in TaskIds \ DOMAIN tasks : t <= u}

(* CreateTask, lines 319-336: the id, the stamps, the forced status *)
QueuedTask(in) == [in EXCEPT !.Status = "queued"]

CreateTask(in) ==
    /\ \E taskID \in (IF in.ID = 0 THEN generateTaskID ELSE {in.ID}) :
          IF in.DepartmentID \notin DeptIds
          THEN /\ ret' = DepartmentNotFound("CreateTask", taskID, in.DepartmentID)
               /\ UNCHANGED registry
          ELSE \E r \in RouteTask(config, members, memberStats, QueuedTask(in), taskID) :
                  /\ tasks' = Put(tasks, taskID, r.task)
                  /\ members' = r.members
                  /\ memberStats' = r.memberStats
                  /\ ret' = Published("CreateTask", taskID, "Created")
                  /\ UNCHANGED departmentStats
    /\ now < MaxTime
    /\ now' = now + 1
    /\ UNCHANGED <<config, scalingConfig, monitors, mu, calls>>

(* the keys and values of a result map (map[string]interface{}) *)
ResultKeys == {"output", "error"}

ResultValues == {"v1", "v2"}

ResultMaps == UNION {[K -> ResultValues] : K \in SUBSET ResultKeys}

(* a nil map, and make(map[string]interface{}) of line 391 *)
NilResults == [nil |-> TRUE, kv |-> [k \in {} |-> ""]]

EmptyResults == [nil |-> FALSE, kv |-> [k \in {} |-> ""]]

(* the result arguments of UpdateTaskStatus: nil, an empty map, and every  *)
(* map over the keys                                                       *)
ResultPatches == {NilResults} \cup {[nil |-> FALSE, kv |-> m] : m \in ResultMaps}

(* UpdateTaskStatus, lines 389-397, with the map replaced by the patch *)
mergeResultsReplaced(results, result) ==
    IF result.nil THEN results ELSE result

(* UpdateTaskStatus, lines 389-397: the patch is written into the task's   *)
(* results key by key, into a new map if the task had none                 *)
mergeResults(results, result) ==
    IF result.nil
    THEN results
    ELSE LET made == IF results.nil THEN EmptyResults ELSE results
         IN [made EXCEPT !.kv = [k \in DOMAIN made.kv \cup DOMAIN result.kv |->
                                    IF k \in DOMAIN result.kv
                                    THEN result.kv[k]
                                    ELSE made.kv[k]]]

(* UpdateTaskStatus, lines 367-383, with every stamp overwritten *)
StampedTaskAlways(task, status, at) ==
    [task EXCEPT !.Status = status,
                 !.StartedAt = IF status = "in_progress" THEN at ELSE @,
                 !.CompletedAt = IF status \in {"completed", "failed"} THEN at ELSE @]

(* UpdateTaskStatus, lines 367-383: the status and the stamps of the task *)
StampedTask(task, status, at) ==
    [task EXCEPT !.Status = status,
                 !.StartedAt = IF status = "in_progress" /\ @ = 0 THEN at ELSE @,
                 !.CompletedAt = IF status \in {"completed", "failed"} /\ @ = 0
                                 THEN at ELSE @]

UpdateTaskStatus(taskID, status, result) ==
    /\ IF taskID \notin DOMAIN tasks
       THEN /\ ret' = Returned("UpdateTaskStatus", taskID, "NotFound")
            /\ UNCHANGED registry
       ELSE LET old == tasks[taskID]
                task == [StampedTask(old, status, now) EXCEPT
                             !.Results = mergeResults(@, result)]
                done == IF status \in {"completed", "failed"} /\ old.AssignedMember # 0
                        THEN updateMemberTaskCompletion(members, memberStats, old.AssignedMember,
                                                        taskID, status = "completed")
                        ELSE <<members, memberStats>>
            IN /\ tasks' = [tasks EXCEPT ![taskID] = task]
               /\ members' = done[1]
               /\ memberStats' = done[2]
               /\ ret' = Published("UpdateTaskStatus", taskID, "Updated")
               /\ UNCHANGED departmentStats
    /\ now < MaxTime
    /\ now' = now + 1
    /\ UNCHANGED <<config, scalingConfig, monitors, mu, calls>>

(* ReassignTask, lines 1010-1027: the task leaves its member's list *)
Detach(ms, task, taskID) ==
    IF task.AssignedMember # 0 /\ task.AssignedMember \in DOMAIN ms
    THEN LET i == task.AssignedMember
             left == RemoveFirst(ms[i].CurrentTasks, taskID)
         IN [ms EXCEPT ![i].CurrentTasks = left,
                       ![i].Status = IF Len(left) < ms[i].MaxConcurrent THEN "online" ELSE @]
    ELSE ms

(* ReassignTask, lines 1029-1033 *)
ResetTask(task) == [task EXCEPT !.AssignedMember = 0, !.AssignedRole = "", !.Status = "queued"]

ReassignTask(taskID) ==
    /\ IF taskID \notin DOMAIN tasks
       THEN /\ ret' = Returned("ReassignTask", taskID, "NotFound")
            /\ UNCHANGED registry
       ELSE \E r \in RouteTask(config, Detach(members, tasks[taskID], taskID), memberStats,
                               ResetTask(tasks[taskID]), taskID) :
               /\ tasks' = [tasks EXCEPT ![taskID] = r.task]
               /\ members' = r.members
               /\ memberStats' = r.memberStats
               /\ ret' = Returned("ReassignTask", taskID, r.err)
               /\ UNCHANGED departmentStats
    /\ now < MaxTime
    /\ now' = now + 1
    /\ UNCHANGED <<config, scalingConfig, monitors, mu, calls>>

-----------------------------------------------------------------------------
(* Inputs of the calls.  Member 1 is a developer of dept-dev with room for *)
(* MaxCap tasks; member 2 registers as a developer of dept-dev, as a lead  *)
(* of dept-qa, or for a department that does not exist.  Tasks come with   *)
(* and without a department, a role pin, required skills and an id.        *)

NewMember(id, departmentID, role, maxConcurrent) ==
    [ID |-> id, DepartmentID |-> departmentID, Role |-> role, Status |-> "online",
     Specializations |-> IF role = "developer" THEN {SkillGoCap} ELSE {},
     CurrentTasks |-> <<>>, MaxConcurrent |-> maxConcurrent, JoinedAt |-> 0,
     IsLead |-> FALSE, AutoScaled |-> FALSE]

MemberInputs ==
    {NewMember(1, "dept-dev", "developer", MaxCap),
     NewMember(2, "dept-dev", "developer", 1),
     NewMember(2, "dept-qa", "lead_dev", 1),
     NewMember(2, "dept-x", "developer", 1)}

NewTask(id, departmentID, role, skills, title, description, type, priority) ==
    [ID |-> id, Title |-> title, Description |-> description, Type |-> type,
     Priority |-> priority, Status |-> "", DepartmentID |-> departmentID,
     AssignedMember |-> 0, AssignedRole |-> role, RequiredSkills |-> skills,
     StartedAt |-> 0, CompletedAt |-> 0, Results |-> NilResults]

TaskInputs ==
    {NewTask(0, d, "developer", {SkillGo}, TxtFixLoginBug, TxtEmpty, "bug", "medium") :
        d \in {"dept-dev", "", "dept-x"}}
    \cup {NewTask(0, "dept-qa", "", {}, TxtLeadReview, TxtLeadReview, "", "critical"),
          NewTask(1, "dept-dev", "", {}, TxtFixLoginBug, TxtEmpty, "bug", "medium")}

NoReturn == Returned("", 0, "")

(* the auto-scaler between two visits of a department *)
ScalerIdle == [pc |-> "idle", dept |-> "", candidate |-> 0, at |-> 0]

(* HealthChecker.Start and AutoScaler.Start wait in their select, no       *)
(* context is cancelled                                                    *)
LoopsStarted == [cancelled |-> FALSE, health |-> "select", pending |-> {}, scale |-> "select"]

Init ==
    /\ config \in Configs
    /\ members = [i \in {} |-> 0]
    /\ memberStats = [i \in {} |-> 0]
    /\ departmentStats =
           [d \in DeptIds |-> [TotalMembers |-> 0, ActiveMembers |-> 0,
                               RoleDistribution |-> [r \in Roles |-> 0]]]
    /\ tasks = [i \in {} |-> 0]
    /\ now = 1
    /\ ret = NoReturn
    /\ mu = 0
    /\ calls = [k \in {} |-> 0]
    /\ healthStatus = [i \in {} |-> 0]
    /\ scaleCooldown = [d \in {} |-> 0]
    /\ scaler = ScalerIdle
    /\ loops = LoopsStarted
    /\ scalingConfig = DefaultScalingConfig

Next ==
    \/ \E in \in MemberInputs : RegisterMember(in)
    \/ \E i \in MemberIds : UnregisterMember(i)
    \/ \E i \in MemberIds, st \in MemberStatuses : UpdateMemberStatus(i, st)
    \/ \E in \in TaskInputs : CreateTask(in)
    \/ \E t \in TaskIds, st \in TaskStatuses : UpdateTaskStatus(t, st, NilResults)
    \/ \E t \in TaskIds : ReassignTask(t)

Spec == Init /\ [][Next]_vars

-----------------------------------------------------------------------------
(* The registry lock.  Manager.mu is a sync.RWMutex: Lock returns when no   *)
(* call holds the lock, RLock returns when no call holds it for writing,   *)
(* and it is not reentrant.  mu is the call that holds the write lock, 0   *)
(* when none; a read lock is taken and released within one step.  calls    *)
(* are the calls in flight that are about to take the read lock.  A call   *)
(* that locks on entry and unlocks on return (defer m.mu.Unlock()) and     *)
(* asks for no lock in between is one step, taken when the lock is free.   *)

MaxCalls == 2

CallIds == 1..MaxCalls

(* a call in flight: what it runs, where it stands, the task it works on   *)
(* and the members it has picked out so far                               *)
Frame(op, pc, taskID, candidates) ==
    [op |-> op, pc |-> pc, taskID |-> taskID, candidates |-> candidates]

LockedRegisterMember(in) == mu = 0 /\ RegisterMember(in)

LockedUnregisterMember(memberID) == mu = 0 /\ UnregisterMember(memberID)

LockedUpdateMemberStatus(memberID, status) == mu = 0 /\ UpdateMemberStatus(memberID, status)

LockedUpdateTaskStatus(taskID, status, result) ==
    mu = 0 /\ UpdateTaskStatus(taskID, status, result)

(* CreateTask from m.mu.Lock() to the call of ListMembers in               *)
(* findSuitableMembers: the task is stored, the write lock is still held  *)
CreateTaskLocked(k, in) ==
    /\ mu = 0
    /\ k \notin DOMAIN calls
    /\ now < MaxTime
    /\ now' = now + 1
    /\ \E taskID \in (IF in.ID = 0 THEN generateTaskID ELSE {in.ID}) :
          IF in.DepartmentID \notin DeptIds
          THEN /\ ret' = DepartmentNotFound("CreateTask", taskID, in.DepartmentID)
               /\ UNCHANGED <<registry, mu, calls>>
          ELSE /\ tasks' = Put(tasks, taskID, QueuedTask(in))
               /\ mu' = k
               /\ calls' = Put(calls, k, Frame("CreateTask", "RLock", taskID, {}))
               /\ UNCHANGED <<members, memberStats, departmentStats, ret>>
    /\ UNCHANGED <<config, scalingConfig, monitors>>

(* a caller that holds no lock enters GetTask or ListMembers *)
BeginRead(k, op, taskID) ==
    /\ k \notin DOMAIN calls
    /\ now < MaxTime
    /\ now' = now + 1
    /\ calls' = Put(calls, k, Frame(op, "RLock", taskID, {}))
    /\ UNCHANGED <<config, scalingConfig, monitors, registry, ret, mu>>

(* m.mu.RLock() returns to call k: GetTask and ListMembers read and        *)
(* return; ListMembers called by the router inside CreateTask returns the *)
(* members and the rest of CreateTask runs to its return, which unlocks   *)
ReadLocked(k) ==
    /\ k \in DOMAIN calls
    /\ calls[k].pc = "RLock"
    /\ mu = 0
    /\ IF calls[k].op = "CreateTask"
       THEN \E r \in RouteTask(config, members, memberStats, tasks[calls[k].taskID],
                               calls[k].taskID) :
               /\ tasks' = [tasks EXCEPT ![calls[k].taskID] = r.task]
               /\ members' = r.members
               /\ memberStats' = r.memberStats
               /\ ret' = Published("CreateTask", calls[k].taskID, "Created")
               /\ UNCHANGED departmentStats
       ELSE /\ ret' = Returned(calls[k].op, calls[k].taskID,
                               IF calls[k].op = "GetTask" /\ calls[k].taskID \notin DOMAIN tasks
                               THEN "NotFound" ELSE "")
            /\ UNCHANGED registry
    /\ calls' = Delete(calls, k)
    /\ UNCHANGED <<config, scalingConfig, monitors, now, mu>>

LockNext ==
    \/ \E in \in MemberInputs : LockedRegisterMember(in)
    \/ \E i \in MemberIds : LockedUnregisterMember(i)
    \/ \E i \in MemberIds, st \in MemberStatuses : LockedUpdateMemberStatus(i, st)
    \/ \E t \in TaskIds, st \in TaskStatuses : LockedUpdateTaskStatus(t, st, NilResults)
    \/ \E k \in CallIds, in \in TaskInputs : CreateTaskLocked(k, in)
    \/ \E k \in CallIds, t \in TaskIds : BeginRead(k, "GetTask", t)
    \/ \E k \in CallIds : BeginRead(k, "ListMembers", 0)
    \/ \E k \in CallIds : ReadLocked(k)

LockSpec == Init /\ [][LockNext]_vars

(* C2: a CreateTask call that holds the registry lock can always go on to *)
(* its return, where the lock is released: the read lock its router asks  *)
(* for is granted.                                                         *)
C2_CreateTaskReturns ==
    \A k \in DOMAIN calls :
        (calls[k].op = "CreateTask" /\ mu = k) => ENABLED ReadLocked(k)

-----------------------------------------------------------------------------
(* ReassignTask statement by statement.  It takes the registry lock only   *)
(* inside GetTask, GetMember, ListMembers and GetMemberStats, each of      *)
(* which releases it on return; everything it writes, it writes with no    *)
(* lock held, so another call can run between any two of its steps.  The   *)
(* other calls are the one-step calls of above.                            *)

(* lines 1005-1008 *)
ReassignGetTask(k, taskID) ==
    /\ k \notin DOMAIN calls
    /\ now < MaxTime
    /\ now' = now + 1
    /\ IF taskID \notin DOMAIN tasks
       THEN /\ ret' = Returned("ReassignTask", taskID, "NotFound")
            /\ UNCHANGED calls
       ELSE /\ calls' = Put(calls, k, Frame("ReassignTask", "Detach", taskID, {}))
            /\ UNCHANGED ret
    /\ UNCHANGED <<config, scalingConfig, monitors, registry, mu>>

(* lines 1010-1033 *)
ReassignDetach(k) ==
    /\ k \in DOMAIN calls
    /\ calls[k].pc = "Detach"
    /\ LET taskID == calls[k].taskID
       IN /\ members' = Detach(members, tasks[taskID], taskID)
          /\ tasks' = [tasks EXCEPT ![taskID] = ResetTask(@)]
    /\ calls' = [calls EXCEPT ![k].pc = "findSuitableMembers"]
    /\ UNCHANGED <<config, scalingConfig, monitors, memberStats, departmentStats, now, ret, mu>>

(* RouteTask, lines 654-670: the candidates are picked; with none of them  *)
(* the call ends here, in fallbackRouting when that is enabled             *)
ReassignFind(k) ==
    /\ k \in DOMAIN calls
    /\ calls[k].pc = "findSuitableMembers"
    /\ LET taskID == calls[k].taskID
           task == tasks[taskID]
           listed == ListMembers(members, task.DepartmentID)
           candidates == {i \in listed : isMemberSuitable(config, members[i], task)}
       IN IF candidates # {}
          THEN /\ calls' = [calls EXCEPT ![k].pc = "selectMember",
                                         ![k].candidates = candidates]
               /\ UNCHANGED <<registry, ret>>
          ELSE /\ \E r \in RouteTask(config, members, memberStats, task, taskID) :
                     /\ tasks' = [tasks EXCEPT ![taskID] = r.task]
                     /\ members' = r.members
                     /\ memberStats' = r.memberStats
                     /\ ret' = Returned("ReassignTask", taskID, r.err)
               /\ calls' = Delete(calls, k)
               /\ UNCHANGED departmentStats
    /\ UNCHANGED <<config, scalingConfig, monitors, now, mu>>

(* RouteTask, lines 672-682: one of the candidates picked earlier is       *)
(* selected as the members are now, and gets the task                      *)
ReassignAssign(k) ==
    /\ k \in DOMAIN calls
    /\ calls[k].pc = "selectMember"
    /\ LET taskID == calls[k].taskID
       IN \E i \in selectMember(config, members, memberStats, tasks[taskID],
                                calls[k].candidates) :
             LET r == assignTaskToMember(members, memberStats, tasks[taskID], taskID, i)
             IN /\ tasks' = [tasks EXCEPT ![taskID] = r.task]
                /\ members' = r.members
                /\ memberStats' = r.memberStats
                /\ ret' = Returned("ReassignTask", taskID, "")
    /\ calls' = Delete(calls, k)
    /\ UNCHANGED <<config, scalingConfig, monitors, departmentStats, now, mu>>

(* the tasks created here get a generated id: no two of them share one *)
RaceTaskInputs == {in \in TaskInputs : in.ID = 0}

(* the statuses the health checker hands to UpdateMemberStatus *)
HealthStatuses == {"online", "unhealthy"}

RaceNext ==
    \/ \E in \in MemberInputs : RegisterMember(in)
    \/ \E i \in MemberIds, st \in HealthStatuses : UpdateMemberStatus(i, st)
    \/ \E in \in RaceTaskInputs : CreateTask(in)
    \/ \E t \in TaskIds, st \in TaskStatuses : UpdateTaskStatus(t, st, NilResults)
    \/ \E k \in CallIds, t \in TaskIds : ReassignGetTask(k, t)
    \/ \E k \in CallIds : ReassignDetach(k)
    \/ \E k \in CallIds : ReassignFind(k)
    \/ \E k \in CallIds : ReassignAssign(k)

RaceSpec == Init /\ [][RaceNext]_vars

(* C3: whatever the order in which the steps of concurrent ReassignTask,   *)
(* UpdateTaskStatus and status-update calls run, once they have returned   *)
(* no member holds more than MaxConcurrent tasks and no task id is in the  *)
(* lists of two members.                                                   *)
C3_ReassignKeepsLists ==
    DOMAIN calls = {} =>
        /\ \A i \in DOMAIN members : Len(members[i].CurrentTasks) <= members[i].MaxConcurrent
        /\ \A i, j \in DOMAIN members, t \in TaskIds :
              (\E n \in DOMAIN members[i].CurrentTasks : members[i].CurrentTasks[n] = t)
              /\ (\E n \in DOMAIN members[j].CurrentTasks : members[j].CurrentTasks[n] = t)
              => i = j

-----------------------------------------------------------------------------
(* C1: after any sequence of registry and router calls, every registered   *)
(* member holds at most MaxConcurrent tasks.                               *)
C1_CapacityRespected ==
    \A i \in DOMAIN members : Len(members[i].CurrentTasks) <= members[i].MaxConcurrent

(* a CreateTask has just left its task unassigned because the one member   *)
(* that would otherwise suit it is full                                    *)
C1_Witness ==
    \E i \in DOMAIN members, t \in DOMAIN tasks :
        /\ ret = Published("CreateTask", t, "Created")
        /\ tasks[t].AssignedMember = 0
        /\ members[i].DepartmentID = tasks[t].DepartmentID
        /\ Len(members[i].CurrentTasks) = members[i].MaxConcurrent
        /\ ~isMemberSuitable(config, members[i], tasks[t])
        /\ isMemberSuitable(config, [members[i] EXCEPT !.MaxConcurrent = @ + 1], tasks[t])

-----------------------------------------------------------------------------
(* C4: CreateTask does not answer NotFound to a task that names no         *)
(* department.                                                             *)
C4_EmptyDepartmentAccepted ==
    ~(ret.op = "CreateTask" /\ ret.err = "NotFound" /\ ret.department = "")

(* the one member of the task's department and pinned role that is online, *)
(* idle and suitable for the task                                          *)
OnlyIdleMatch(i, task) ==
    /\ i \in ListMembers(members, task.DepartmentID)
    /\ members[i].Role = task.AssignedRole
    /\ members[i].Status = "online"
    /\ members[i].CurrentTasks = <<>>
    /\ isMemberSuitable(config, members[i], task)
    /\ \A j \in ListMembers(members, task.DepartmentID) :
          isMemberSuitable(config, members[j], task) => j = i

(* C5: a CreateTask call on a task with a pinned department and role, for  *)
(* which exactly one idle online member of that role is suitable, can      *)
(* return, and returns with the task assigned to that member and in the    *)
(* member's list.                                                          *)
C5_PinnedTaskAssigned ==
    \A k \in DOMAIN calls, i \in DOMAIN members :
        (/\ calls[k].op = "CreateTask"
         /\ tasks[calls[k].taskID].AssignedRole # ""
         /\ OnlyIdleMatch(i, tasks[calls[k].taskID]))
        => ENABLED (/\ ReadLocked(k)
                    /\ tasks'[calls[k].taskID].Status = "assigned"
                    /\ tasks'[calls[k].taskID].AssignedMember = i
                    /\ members'[i].CurrentTasks = <<calls[k].taskID>>)

Terminal == {"completed", "failed"}

(* C6: no UpdateTaskStatus or ReassignTask call changes the status or the  *)
(* assigned member of a task that is completed or failed.                  *)
C6_TerminalIsFinal ==
    [][ret'.op \in {"UpdateTaskStatus", "ReassignTask"} =>
          \A t \in DOMAIN tasks :
              tasks[t].Status \in Terminal =>
                  /\ tasks'[t].Status = tasks[t].Status
                  /\ tasks'[t].AssignedMember = tasks[t].AssignedMember]_vars

(* the edges of the task state machine an UpdateTaskStatus call may take;  *)
(* repeating the status a task has, and leaving blocked for where the task *)
(* can have come from, are allowed                                         *)
TaskEdges ==
    {<<"queued", "assigned">>, <<"assigned", "in_progress">>,
     <<"in_progress", "completed">>, <<"in_progress", "failed">>}
    \cup {<<st, "blocked">> : st \in {"queued", "assigned", "in_progress"}}
    \cup {<<"blocked", st>> : st \in {"queued", "assigned", "in_progress"}}
    \cup {<<st, st>> : st \in TaskStatuses}

(* C7: every UpdateTaskStatus call that succeeds moves the task along an   *)
(* edge of the task state machine.                                         *)
C7_StatusFollowsEdges ==
    [][(ret'.op = "UpdateTaskStatus" /\ ret'.err = "") =>
          <<tasks[ret'.id].Status, tasks'[ret'.id].Status>> \in TaskEdges]_vars

(* C8: in every UpdateTaskStatus or ReassignTask call, StartedAt changes   *)
(* only from unset to the time of the call, in a move to in_progress, and  *)
(* is set by such a move; CompletedAt changes only from unset to the time  *)
(* of the call, in a move to completed or failed, and is set by such a     *)
(* move.                                                                   *)
C8_StampsSetOnce ==
    [][ret'.op \in {"UpdateTaskStatus", "ReassignTask"} =>
          \A t \in DOMAIN tasks :
              /\ tasks'[t].StartedAt # tasks[t].StartedAt =>
                     /\ tasks[t].StartedAt = 0
                     /\ tasks'[t].StartedAt = now
                     /\ tasks'[t].Status = "in_progress"
              /\ tasks'[t].CompletedAt # tasks[t].CompletedAt =>
                     /\ tasks[t].CompletedAt = 0
                     /\ tasks'[t].CompletedAt = now
                     /\ tasks'[t].Status \in Terminal
              /\ (ret'.op = "UpdateTaskStatus" /\ ret'.id = t) =>
                     /\ tasks'[t].Status = "in_progress" => tasks'[t].StartedAt # 0
                     /\ tasks'[t].Status \in Terminal => tasks'[t].CompletedAt # 0]_vars

(* a task is moved to in_progress and to completed a second time, after    *)
(* its stamps were set, and keeps them                                     *)
C8_Witness ==
    \E t \in DOMAIN tasks :
        /\ ret = Published("UpdateTaskStatus", t, "Updated")
        /\ tasks[t].Status \in {"in_progress", "completed"}
        /\ tasks[t].StartedAt # 0
        /\ tasks[t].CompletedAt # 0
        /\ tasks[t].StartedAt < tasks[t].CompletedAt
        /\ tasks[t].CompletedAt < now - 1

(* C9: an UpdateTaskStatus call leaves every member with TotalTasks =      *)
(* CompletedTasks + FailedTasks, and counts a task for a member only when  *)
(* it moves the task to completed or failed from another status, once per  *)
(* task.                                                                   *)
C9_CountedOnce ==
    [][ret'.op = "UpdateTaskStatus" =>
          \A i \in DOMAIN memberStats :
              /\ memberStats'[i].TotalTasks
                     = memberStats'[i].CompletedTasks + memberStats'[i].FailedTasks
              /\ memberStats'[i].TotalTasks # memberStats[i].TotalTasks =>
                     /\ memberStats'[i].TotalTasks = memberStats[i].TotalTasks + 1
                     /\ tasks[ret'.id].Status \notin Terminal
                     /\ tasks'[ret'.id].Status \in Terminal
                     /\ tasks[ret'.id].AssignedMember = i]_vars

(* C10: between calls a member is busy exactly when its list of current    *)
(* tasks is full.                                                          *)
C10_BusyIffFull ==
    \A i \in DOMAIN members :
        members[i].Status = "busy"
            <=> Len(members[i].CurrentTasks) = members[i].MaxConcurrent

-----------------------------------------------------------------------------
(* HealthChecker.  performHealthCheck probes every member that is not      *)
(* offline; the result of the probe (pingMember) is an input.  The calls   *)
(* of checkMemberHealth of one tick are serialized by the checker's own    *)
(* lock, and a probe changes the registry through UpdateMemberStatus.      *)

UnhealthyThreshold == 2

(* checkMemberHealth, lines 124-137, with the counter kept on success *)
ConsecutiveFailsKept(memberID, healthy) ==
    (IF memberID \in DOMAIN healthStatus THEN healthStatus[memberID].ConsecutiveFails ELSE 0)
        + (IF healthy THEN 0 ELSE 1)

(* checkMemberHealth, lines 112-137: the counter the probe leaves *)
ConsecutiveFails(memberID, healthy) ==
    IF healthy
    THEN 0
    ELSE (IF memberID \in DOMAIN healthStatus
          THEN healthStatus[memberID].ConsecutiveFails ELSE 0) + 1

(* checkMemberHealth, lines 125 and 136: FailedChecks as the probe leaves  *)
(* it                                                                      *)
FailedChecks(memberID, healthy) ==
    IF healthy
    THEN 0
    ELSE (IF memberID \in DOMAIN healthStatus
          THEN healthStatus[memberID].FailedChecks ELSE 0) + 1

(* checkMemberHealth, lines 131-134 and 145-147: the status handed to      *)
(* UpdateMemberStatus, "" when it is not called                            *)
ProbedStatus(memberID, healthy) ==
    IF healthy
    THEN (IF members[memberID].Status = "unhealthy" THEN "online" ELSE "")
    ELSE (IF ConsecutiveFails(memberID, healthy) >= UnhealthyThreshold
          THEN "unhealthy" ELSE "")

checkMemberHealth(memberID, healthy) ==
    /\ memberID \in DOMAIN members
    /\ members[memberID].Status # "offline"
    /\ healthStatus' = Put(healthStatus, memberID,
                           [ConsecutiveFails |-> ConsecutiveFails(memberID, healthy),
                            FailedChecks |-> FailedChecks(memberID, healthy),
                            IsHealthy |-> healthy])
    /\ IF ProbedStatus(memberID, healthy) = ""
       THEN UNCHANGED <<members, departmentStats>>
       ELSE LET ms == [members EXCEPT ![memberID].Status = ProbedStatus(memberID, healthy)]
            IN /\ members' = ms
               /\ departmentStats' =
                      updateDepartmentStats(departmentStats, ms, members[memberID].DepartmentID)
    /\ ret' = Returned("checkMemberHealth", memberID, IF healthy THEN "" ELSE "Unhealthy")
    /\ now < MaxTime
    /\ now' = now + 1
    /\ UNCHANGED <<config, scalingConfig, memberStats, tasks, mu, calls, scaleCooldown, scaler, loops>>

HealthNext ==
    \/ \E in \in MemberInputs : RegisterMember(in)
    \/ \E in \in RaceTaskInputs : CreateTask(in)
    \/ \E t \in TaskIds, st \in TaskStatuses : UpdateTaskStatus(t, st, NilResults)
    \/ \E t \in TaskIds : ReassignTask(t)
    \/ \E i \in MemberIds, healthy \in BOOLEAN : checkMemberHealth(i, healthy)

HealthSpec == Init /\ [][HealthNext]_vars

(* the health checker has set member i unhealthy *)
Latched(i) ==
    /\ members[i].Status = "unhealthy"
    /\ i \in DOMAIN healthStatus
    /\ healthStatus[i].ConsecutiveFails >= UnhealthyThreshold

(* C11: a member the health checker has set unhealthy stays unhealthy and  *)
(* is assigned no task by CreateTask, UpdateTaskStatus or ReassignTask.    *)
C11_UnhealthyLatch ==
    [][ret'.op \in {"CreateTask", "UpdateTaskStatus", "ReassignTask"} =>
          \A i \in DOMAIN members :
              Latched(i) =>
                  /\ members'[i].Status = "unhealthy"
                  /\ \A t \in DOMAIN tasks' :
                        tasks'[t].AssignedMember = i =>
                            (t \in DOMAIN tasks /\ tasks[t].AssignedMember = i)]_vars

(* C12: a failed probe adds one to the member's counter of consecutive     *)
(* failures and, with the counter at the threshold or above, leaves the    *)
(* member unhealthy and suitable for no task; a successful probe leaves    *)
(* the counter at 0, an unhealthy member online and any other status as    *)
(* it was.                                                                 *)
C12_ProbeRule ==
    [][ret'.op = "checkMemberHealth" =>
          LET i == ret'.id
              before == IF i \in DOMAIN healthStatus
                        THEN healthStatus[i].ConsecutiveFails ELSE 0
          IN IF ret'.err # ""
             THEN /\ healthStatus'[i].ConsecutiveFails = before + 1
                  /\ before + 1 >= UnhealthyThreshold =>
                         /\ members'[i].Status = "unhealthy"
                         /\ \A in \in TaskInputs :
                               ~isMemberSuitable(config, members'[i], QueuedTask(in))
                  /\ before + 1 < UnhealthyThreshold =>
                         members'[i].Status = members[i].Status
             ELSE /\ healthStatus'[i].ConsecutiveFails = 0
                  /\ members'[i].Status =
                         IF members[i].Status = "unhealthy" THEN "online"
                         ELSE members[i].Status]_vars

(* a member that holds a task has failed its probes up to the threshold    *)
(* and is unhealthy                                                        *)
C12_Witness ==
    \E i \in DOMAIN members :
        /\ ret = Returned("checkMemberHealth", i, "Unhealthy")
        /\ healthStatus[i].ConsecutiveFails = UnhealthyThreshold
        /\ members[i].Status = "unhealthy"
        /\ members[i].CurrentTasks # <<>>

-----------------------------------------------------------------------------
(* AutoScaler.  checkAndScale reads the clock once and visits every        *)
(* department; what it does to one department does not depend on the       *)
(* others, so a visit of one department is modelled on its own.  The       *)
(* scaler holds the registry lock only inside the registry calls it makes, *)
(* so other calls can run between the steps of a visit.                    *)

(* AutoScalingConfig.CooldownPeriod, in clock units *)
CooldownPeriod == 2

(* evaluateScalingNeeds, line 116: "Assume 5 tasks per member average" *)
TasksPerMember == 5

(* the ids scaleUp gives: "member-<dept>-<unix time>", apart from the ids  *)
(* of the members registered by others                                     *)
MaxScaled == 2

ScaledIds == (MaxMemberId + 1)..(MaxMemberId + MaxScaled)

generateMemberID ==
    {i \in ScaledIds \ DOMAIN members : \A j \in ScaledIds \ DOMAIN members : i <= j}

SkillCoding == <<"c", "o", "d", "i", "n", "g">>

SkillTesting == <<"t", "e", "s", "t", "i", "n", "g">>

getRoleSpecializations(role) ==
    IF role = "developer" THEN {SkillCoding}
    ELSE IF role = "qa" THEN {SkillTesting} ELSE {}

getRoleMaxConcurrent(role) ==
    IF role = "developer" THEN 3
    ELSE IF role = "lead_dev" THEN 2
    ELSE IF role = "qa" THEN 4 ELSE 3

countActiveTasks(departmentID) ==
    Cardinality({t \in DOMAIN tasks : /\ tasks[t].DepartmentID = departmentID
                                      /\ tasks[t].Status = "in_progress"})

(* evaluateScalingNeeds, lines 116-118 and 128, 137: utilization is a      *)
(* float64 quotient; with no active member it is +Inf when there are       *)
(* active tasks and NaN when there are none, and NaN compares false        *)
UtilizationAbove(activeTasks, activeMembers, percent) ==
    IF activeMembers = 0
    THEN activeTasks > 0
    ELSE 100 * activeTasks > percent * activeMembers * TasksPerMember

UtilizationBelow(activeTasks, activeMembers, percent) ==
    IF activeMembers = 0
    THEN FALSE
    ELSE 100 * activeTasks < percent * activeMembers * TasksPerMember

(* evaluateScalingNeeds without the test of line 129 *)
evaluateScalingNeedsNoCap(departmentID) ==
    LET active == departmentStats[departmentID].ActiveMembers
        busy == countActiveTasks(departmentID)
    IN IF /\ UtilizationAbove(busy, active, scalingConfig.ScaleUpThreshold)
          /\ countDepartmentMembers(members, departmentID)
                 < Departments[departmentID].MaxMembers
       THEN "scale_up"
       ELSE IF /\ UtilizationBelow(busy, active, scalingConfig.ScaleDownThreshold)
               /\ active > Departments[departmentID].MinMembers
       THEN "scale_down"
       ELSE "none"

evaluateScalingNeeds(departmentID) ==
    LET active == departmentStats[departmentID].ActiveMembers
        busy == countActiveTasks(departmentID)
    IN IF /\ UtilizationAbove(busy, active, scalingConfig.ScaleUpThreshold)
          /\ active < scalingConfig.MaxMembersPerDept
          /\ countDepartmentMembers(members, departmentID)
                 < Departments[departmentID].MaxMembers
       THEN "scale_up"
       ELSE IF /\ UtilizationBelow(busy, active, scalingConfig.ScaleDownThreshold)
               /\ active > Departments[departmentID].MinMembers
       THEN "scale_down"
       ELSE "none"

(* determineRoleToAdd, lines 260-287: the first role of the department's   *)
(* list with the fewest members                                            *)
RoleMap(type) ==
    IF type = "development" THEN <<"developer", "lead_dev", "developer">>
    ELSE IF type = "qa" THEN <<"qa", "lead_test", "qa">> ELSE <<>>

(* membersByRole counted for one role *)
countRole(departmentID, role) ==
    Cardinality({i \in ListMembers(members, departmentID) : members[i].Role = role})

(* determineRoleToAdd: the roles it can return, "" for none.  The loop of  *)
(* lines 247-257 ranges over the map RoleScaling and returns at the first  *)
(* role it meets that has fewer members than its quota, in the order the   *)
(* map is iterated in, which is any.                                       *)
determineRoleToAdd(departmentID) ==
    LET roles == RoleMap(Departments[departmentID].Type)
        unmet == {r \in DOMAIN scalingConfig.RoleScaling :
                     countRole(departmentID, r) < scalingConfig.RoleScaling[r]}
    IN IF unmet # {}
       THEN unmet
       ELSE IF roles = <<>>
       THEN {""}
       ELSE {roles[CHOOSE n \in DOMAIN roles :
                      /\ \A k \in DOMAIN roles :
                            countRole(departmentID, roles[n]) <= countRole(departmentID, roles[k])
                      /\ \A k \in 1..(n - 1) :
                            countRole(departmentID, roles[k]) > countRole(departmentID, roles[n])]}

(* findScaleDownCandidate without the first loop, lines 300-315 *)
findScaleDownCandidateAny(departmentID) ==
    LET listed == ListMembers(members, departmentID)
        candidates == {i \in listed : ~members[i].IsLead /\ members[i].CurrentTasks = <<>>}
    IN IF candidates = {}
       THEN {0}
       ELSE {i \in candidates : \A j \in candidates : members[i].JoinedAt >= members[j].JoinedAt}

(* findScaleDownCandidate: the members it can return, 0 for nil *)
findScaleDownCandidate(departmentID) ==
    LET listed == ListMembers(members, departmentID)
        scaled == {i \in listed :
                      /\ ~(members[i].IsLead
                           /\ Cardinality(listed) > Departments[departmentID].MinMembers)
                      /\ members[i].AutoScaled
                      /\ members[i].CurrentTasks = <<>>}
        candidates == IF scaled # {}
                      THEN scaled
                      ELSE {i \in listed : ~members[i].IsLead /\ members[i].CurrentTasks = <<>>}
    IN IF candidates = {}
       THEN {0}
       ELSE {i \in candidates : \A j \in candidates : members[i].JoinedAt >= members[j].JoinedAt}

(* the scaler as holder of the registry lock *)
ScalerLock == MaxCalls + 1

(* scaleUp, lines 168-189 *)
ScaledMember(id, departmentID, role) ==
    [ID |-> id, DepartmentID |-> departmentID, Role |-> role, Status |-> "online",
     Specializations |-> getRoleSpecializations(role), CurrentTasks |-> <<>>,
     MaxConcurrent |-> getRoleMaxConcurrent(role), JoinedAt |-> 0,
     IsLead |-> isLeadRole(role), AutoScaled |-> TRUE]

(* checkAndScale with line 100 left out *)
ScalerDoneNoCooldown(departmentID) ==
    /\ scaler' = ScalerIdle
    /\ UNCHANGED scaleCooldown

(* checkAndScale, lines 100 and 155: the visit is over *)
ScalerDone(departmentID) ==
    /\ scaleCooldown' = Put(scaleCooldown, departmentID, scaler.at)
    /\ scaler' = ScalerIdle

(* checkAndScale, lines 82-98, for one department *)
ScalerEvaluate(departmentID) ==
    /\ scaler.pc = "idle"
    /\ mu = 0
    /\ Departments[departmentID].AutoScale
    /\ ~(/\ departmentID \in DOMAIN scaleCooldown
         /\ now - scaleCooldown[departmentID] < CooldownPeriod)
    /\ now < MaxTime
    /\ now' = now + 1
    /\ IF evaluateScalingNeeds(departmentID) = "none"
       THEN /\ ret' = Returned("checkAndScale", 0, "")
            /\ UNCHANGED scaler
       ELSE /\ scaler' = [pc |-> evaluateScalingNeeds(departmentID), dept |-> departmentID,
                          candidate |-> 0, at |-> now]
            /\ UNCHANGED ret
    /\ UNCHANGED <<config, scalingConfig, registry, mu, calls, healthStatus, scaleCooldown, loops>>

(* scaleUp with the RegisterMember call it makes *)
ScalerScaleUp ==
    /\ scaler.pc = "scale_up"
    /\ mu = 0
    /\ \E role \in determineRoleToAdd(scaler.dept) :
       LET d == scaler.dept
       IN IF role = ""
          THEN /\ ret' = Returned("scaleUp", 0, "NoRole")
               /\ UNCHANGED registry
          ELSE \E id \in generateMemberID :
                  IF countDepartmentMembers(members, d) >= Departments[d].MaxMembers
                  THEN /\ ret' = Returned("scaleUp", id, "CapacityExceeded")
                       /\ UNCHANGED registry
                  ELSE LET ms == Put(members, id,
                                     [ScaledMember(id, d, role) EXCEPT !.JoinedAt = now])
                       IN /\ members' = ms
                          /\ departmentStats' = updateDepartmentStats(departmentStats, ms, d)
                          /\ memberStats' = Put(memberStats, id, NewMemberStats)
                          /\ ret' = Returned("scaleUp", id, "")
                          /\ UNCHANGED tasks
    /\ ScalerDone(scaler.dept)
    /\ UNCHANGED <<config, scalingConfig, now, mu, calls, healthStatus, loops>>

(* scaleDown, lines 209-213 *)
ScalerPick ==
    /\ scaler.pc = "scale_down"
    /\ mu = 0
    /\ \E c \in findScaleDownCandidate(scaler.dept) :
          IF c = 0
          THEN /\ ret' = Returned("scaleDown", 0, "NoCandidate")
               /\ ScalerDone(scaler.dept)
          ELSE /\ scaler' = [scaler EXCEPT !.pc = "remove", !.candidate = c]
               /\ UNCHANGED <<ret, scaleCooldown>>
    /\ UNCHANGED <<config, scalingConfig, registry, now, mu, calls, healthStatus, loops>>

(* scaleDown, lines 216-225, and UnregisterMember, lines 258-269: the      *)
(* candidate is looked at again, under the lock                            *)
ScalerCheck ==
    /\ scaler.pc = "remove"
    /\ mu = 0
    /\ LET c == scaler.candidate
       IN IF c \notin DOMAIN members
          THEN /\ ret' = Returned("scaleDown", c, "NotFound")
               /\ ScalerDone(scaler.dept)
               /\ UNCHANGED mu
          ELSE IF members[c].CurrentTasks # <<>>
          THEN /\ ret' = Returned("scaleDown", c, "HasActiveWork")
               /\ ScalerDone(scaler.dept)
               /\ UNCHANGED mu
          ELSE /\ mu' = ScalerLock
               /\ scaler' = [scaler EXCEPT !.pc = "delete"]
               /\ UNCHANGED <<ret, scaleCooldown>>
    /\ UNCHANGED <<config, scalingConfig, registry, now, calls, healthStatus, loops>>

(* UnregisterMember, lines 271-283: the member is removed, the lock is     *)
(* released                                                                *)
ScalerDelete ==
    /\ scaler.pc = "delete"
    /\ mu = ScalerLock
    /\ LET c == scaler.candidate
           ms == Delete(members, c)
       IN /\ members' = ms
          /\ memberStats' = Delete(memberStats, c)
          /\ departmentStats' = updateDepartmentStats(departmentStats, ms, members[c].DepartmentID)
          /\ ret' = Returned("scaleDown", c, "")
    /\ mu' = 0
    /\ ScalerDone(scaler.dept)
    /\ UNCHANGED <<config, scalingConfig, tasks, now, calls, healthStatus, loops>>

(* the calls of other callers: those that take the registry lock wait for  *)
(* it; the writes of ReassignTask do not                                   *)
GrantedCreateTask(in) == mu = 0 /\ CreateTask(in)

GrantedReassignGetTask(k, taskID) == mu = 0 /\ ReassignGetTask(k, taskID)

GrantedReassignDetach(k) == mu = 0 /\ ReassignDetach(k)

GrantedReassignFind(k) == mu = 0 /\ ReassignFind(k)

(* the candidates picked are all still registered *)
ReassignAssignRegistered(k) ==
    /\ k \in DOMAIN calls
    /\ calls[k].candidates \subseteq DOMAIN members
    /\ ReassignAssign(k)

ScalerStatuses == {"in_progress", "completed"}

ScalerNext ==
    \/ \E d \in DeptIds : ScalerEvaluate(d)
    \/ ScalerScaleUp
    \/ ScalerPick
    \/ ScalerCheck
    \/ ScalerDelete
    \/ \E in \in MemberInputs : LockedRegisterMember(in)
    \/ \E i \in MemberIds : LockedUnregisterMember(i)
    \/ \E in \in RaceTaskInputs : GrantedCreateTask(in)
    \/ \E t \in TaskIds, st \in ScalerStatuses : LockedUpdateTaskStatus(t, st, NilResults)
    \/ \E t \in TaskIds : GrantedReassignGetTask(1, t)
    \/ GrantedReassignDetach(1)
    \/ GrantedReassignFind(1)
    \/ ReassignAssignRegistered(1)

ScalerSpec == Init /\ [][ScalerNext]_vars

(* the step in which the scaler adds a member to, or removes one from, the *)
(* department it visits                                                    *)
ScalingAction ==
    /\ scaler.pc \in {"scale_up", "delete"}
    /\ scaler'.pc = "idle"
    /\ DOMAIN members' # DOMAIN members

(* C13: right after a scale-up or scale-down the department the scaler     *)
(* visited has at least MinMembers and at most MaxMembers members, whatever *)
(* other callers did between the scaler's evaluation and its action.       *)
C13_ScalingKeepsBounds ==
    [][ScalingAction =>
          /\ countDepartmentMembers(members', scaler.dept)
                 >= Departments[scaler.dept].MinMembers
          /\ countDepartmentMembers(members', scaler.dept)
                 <= Departments[scaler.dept].MaxMembers]_vars

(* C14: the scaler decides to scale up a department that has fewer than    *)
(* MinMembers members, so that the count can reach the minimum with no     *)
(* registration by others.                                                 *)
C14_BelowMinScalesUp ==
    \A d \in DeptIds :
        (/\ Departments[d].AutoScale
         /\ countDepartmentMembers(members, d) < Departments[d].MinMembers)
        => evaluateScalingNeeds(d) = "scale_up"

(* C15: the member the scaler removes holds no task at the moment it is    *)
(* removed.                                                                *)
C15_RemovedMemberIsIdle ==
    [][(scaler.pc = "delete" /\ scaler'.pc = "idle") =>
          members[scaler.candidate].CurrentTasks = <<>>]_vars

(* C16: the scaler adds or removes a member of a department only on a tick *)
(* at least CooldownPeriod after the tick of its last action on that       *)
(* department; the tick of an action is recorded for that department and   *)
(* for no other, and a recorded tick is never put back.                    *)
C16_Cooldown ==
    [][/\ ScalingAction =>
             /\ scaler.dept \in DOMAIN scaleCooldown =>
                    scaler.at - scaleCooldown[scaler.dept] >= CooldownPeriod
             /\ scaleCooldown' = Put(scaleCooldown, scaler.dept, scaler.at)
       /\ \A d \in DOMAIN scaleCooldown :
             /\ d \in DOMAIN scaleCooldown'
             /\ scaleCooldown'[d] >= scaleCooldown[d]
             /\ scaleCooldown'[d] # scaleCooldown[d] =>
                    (d = scaler.dept /\ scaleCooldown'[d] = scaler.at)]_vars

(* the scaler acts on a department a second time, CooldownPeriod or more   *)
(* after the first                                                         *)
C16_Witness ==
    /\ scaler.pc \in {"scale_up", "delete"}
    /\ scaler.dept \in DOMAIN scaleCooldown
    /\ scaler.at - scaleCooldown[scaler.dept] >= CooldownPeriod
    /\ \E i \in DOMAIN members :
          /\ members[i].DepartmentID = scaler.dept
          /\ members[i].JoinedAt > scaleCooldown[scaler.dept]

-----------------------------------------------------------------------------
(* C17: UnregisterMember of a member that holds a task returns             *)
(* HasActiveWork, publishes no event, and leaves members, member stats,    *)
(* department stats and tasks as they were.                                *)
C17_ActiveWorkKept ==
    [][\A i \in MemberIds :
          (/\ UnregisterMember(i)
           /\ i \in DOMAIN members
           /\ members[i].CurrentTasks # <<>>)
          => /\ ret' = Returned("UnregisterMember", i, "HasActiveWork")
             /\ UNCHANGED registry]_vars

C17_Witness ==
    \E i \in DOMAIN members :
        /\ ret = Returned("UnregisterMember", i, "HasActiveWork")
        /\ members[i].CurrentTasks # <<>>

(* C18: RegisterMember for an unknown department returns NotFound, for a   *)
(* department that has MaxMembers members CapacityExceeded, both with the  *)
(* registry unchanged and no event; no department ever has more than       *)
(* MaxMembers members.                                                     *)
C18_RegisterChecks ==
    [][/\ \A in \in MemberInputs :
             RegisterMember(in) =>
                 /\ in.DepartmentID \notin DeptIds =>
                        /\ ret' = DepartmentNotFound("RegisterMember", in.ID, in.DepartmentID)
                        /\ UNCHANGED registry
                 /\ (/\ in.DepartmentID \in DeptIds
                     /\ Cardinality({i \in DOMAIN members :
                                        members[i].DepartmentID = in.DepartmentID})
                            >= Departments[in.DepartmentID].MaxMembers) =>
                        /\ ret' = Returned("RegisterMember", in.ID, "CapacityExceeded")
                        /\ UNCHANGED registry
       /\ \A d \in DeptIds :
             Cardinality({i \in DOMAIN members' : members'[i].DepartmentID = d})
                 <= Departments[d].MaxMembers]_vars

(* a department is full and a registration for it was refused *)
C18_Witness ==
    /\ ret.op = "RegisterMember"
    /\ ret.err = "CapacityExceeded"
    /\ \E d \in DeptIds :
          Cardinality({i \in DOMAIN members : members[i].DepartmentID = d})
              = Departments[d].MaxMembers

(* C19: a CreateTask call whose routing fails still returns: it can go on  *)
(* to its return with no error, the task stored with status queued and no *)
(* assigned member, and in no member's list of current tasks.              *)
C19_RoutingFailureKept ==
    \A k \in DOMAIN calls :
        (/\ calls[k].op = "CreateTask"
         /\ \A r \in RouteTask(config, members, memberStats, tasks[calls[k].taskID],
                               calls[k].taskID) : r.err # "")
        => ENABLED (/\ ReadLocked(k)
                    /\ ret' = Published("CreateTask", calls[k].taskID, "Created")
                    /\ tasks'[calls[k].taskID].Status = "queued"
                    /\ tasks'[calls[k].taskID].AssignedMember = 0
                    /\ \A i \in DOMAIN members' :
                          \A n \in 1..Len(members'[i].CurrentTasks) :
                              members'[i].CurrentTasks[n] # calls[k].taskID)

(* the members fallbackRouting may pick: online, with spare capacity *)
FallbackPool ==
    {i \in DOMAIN members :
        members[i].Status = "online" /\ Len(members[i].CurrentTasks) < members[i].MaxConcurrent}

(* C20: with fallback enabled, a CreateTask whose department has no        *)
(* suitable member (or no member at all) assigns the task to an online     *)
(* member with spare capacity of any department and sets the task's        *)
(* department to that member's; the task stays unassigned only if there   *)
(* is no such member.                                                      *)
C20_FallbackRouting ==
    [][\A in \in TaskInputs :
          (/\ CreateTask(in)
           /\ config.FallbackEnabled
           /\ in.DepartmentID \in DeptIds
           /\ \A i \in DOMAIN members :
                 members[i].DepartmentID = in.DepartmentID
                     => ~isMemberSuitable(config, members[i], QueuedTask(in)))
          => LET task == tasks'[ret'.id]
             IN IF FallbackPool = {}
                THEN task.AssignedMember = 0 /\ task.Status = "queued"
                ELSE /\ task.AssignedMember \in FallbackPool
                     /\ task.Status = "assigned"
                     /\ task.DepartmentID = members[task.AssignedMember].DepartmentID]_vars

-----------------------------------------------------------------------------
(* The auto-scaler on a department whose members were registered by        *)
(* callers, some of them marked auto_scaled and some of them leads         *)
(* (RegisterMember stores the Metadata it is given); tasks are created and *)
(* move on between the scaler's steps.                                     *)

ScaleDownMemberInputs ==
    {NewMember(1, "dept-dev", "developer", MaxCap),
     [NewMember(2, "dept-dev", "developer", 1) EXCEPT !.AutoScaled = TRUE],
     NewMember(2, "dept-dev", "lead_dev", 1),
     [NewMember(1, "dept-dev", "lead_dev", 1) EXCEPT !.AutoScaled = TRUE]}

ScaleDownNext ==
    \/ \E d \in DeptIds : ScalerEvaluate(d)
    \/ ScalerScaleUp
    \/ ScalerPick
    \/ ScalerCheck
    \/ ScalerDelete
    \/ \E in \in ScaleDownMemberInputs : LockedRegisterMember(in)
    \/ \E i \in MemberIds : LockedUnregisterMember(i)
    \/ \E in \in RaceTaskInputs : GrantedCreateTask(in)
    \/ \E t \in TaskIds, st \in ScalerStatuses : LockedUpdateTaskStatus(t, st, NilResults)

ScaleDownSpec == Init /\ [][ScaleDownNext]_vars

(* the members of a department that hold no task and are no lead *)
IdleNonLead(d) ==
    {i \in DOMAIN members : /\ members[i].DepartmentID = d
                            /\ ~members[i].IsLead
                            /\ members[i].CurrentTasks = <<>>}

(* the member the scaler is to remove: the most recently joined of the     *)
(* auto-scaled idle non-leads, of all idle non-leads when there is none    *)
NewestOf(S) == {i \in S : \A j \in S : members[i].JoinedAt >= members[j].JoinedAt}

PreferredCandidates(d) ==
    LET scaled == {i \in IdleNonLead(d) : members[i].AutoScaled}
    IN NewestOf(IF scaled # {} THEN scaled ELSE IdleNonLead(d))

(* more active members than MinMembers and no task in progress *)
ScaleDownScenario(d) ==
    /\ Cardinality({i \in DOMAIN members : /\ members[i].DepartmentID = d
                                           /\ members[i].Status \in {"online", "busy"}})
           > Departments[d].MinMembers
    /\ countActiveTasks(d) = 0

-----------------------------------------------------------------------------
(* the event a call of the registry publishes when it succeeds *)
EventOf(op) ==
    CASE op \in {"RegisterMember", "CreateTask"} -> "Created"
      [] op = "UnregisterMember" -> "Deleted"
      [] op \in {"UpdateMemberStatus", "UpdateTaskStatus"} -> "Updated"
      [] OTHER -> ""

(* C22: a successful RegisterMember, UnregisterMember, UpdateMemberStatus, *)
(* CreateTask or UpdateTaskStatus publishes its Created, Deleted or        *)
(* Updated event, and every call that changes a member or a task, those of *)
(* the router included, publishes an event.                                *)
C22_MutationsPublish ==
    [][/\ (ret'.err = "" /\ EventOf(ret'.op) # "") => ret'.event = EventOf(ret'.op)
       /\ (members' # members \/ tasks' # tasks) =>
             ret'.event \in {"Created", "Deleted", "Updated"}]_vars

-----------------------------------------------------------------------------
(* statisticsUpdater: every 30 seconds updateAllStatistics recomputes the  *)
(* stats of every department under the write lock.  updateDepartmentStats  *)
(* writes the entry of its department only, so the loop over the           *)
(* departments gives each entry the value its own recompute gives it.      *)
RecomputedStats(dstats, ms) ==
    [d \in DOMAIN dstats |-> updateDepartmentStats(dstats, ms, d)[d]]

updateAllStatistics ==
    /\ departmentStats' = RecomputedStats(departmentStats, members)
    /\ ret' = Returned("updateAllStatistics", 0, "")
    /\ now < MaxTime
    /\ now' = now + 1
    /\ UNCHANGED <<config, scalingConfig, monitors, members, memberStats, tasks, mu, calls>>

StatsNext ==
    \/ \E in \in MemberInputs : RegisterMember(in)
    \/ \E i \in MemberIds : UnregisterMember(i)
    \/ \E i \in MemberIds, st \in MemberStatuses : UpdateMemberStatus(i, st)
    \/ \E in \in RaceTaskInputs : CreateTask(in)
    \/ \E t \in TaskIds : ReassignTask(t)
    \/ updateAllStatistics

StatsSpec == Init /\ [][StatsNext]_vars

(* C23: a second recompute right after a recompute, with the member map    *)
(* as it is, leaves total members, active members and the role histogram   *)
(* of every department as the first left them, for the recompute of all    *)
(* departments and for the recompute of one.                               *)
C23_RecomputeIdempotent ==
    [][/\ updateAllStatistics =>
             RecomputedStats(departmentStats', members') = departmentStats'
       /\ \A d \in DeptIds :
             updateDepartmentStats(updateDepartmentStats(departmentStats, members, d),
                                   members, d)
                 = updateDepartmentStats(departmentStats, members, d)]_vars

(* a recompute has run on a registry with an active member *)
C23_Witness ==
    /\ ret.op = "updateAllStatistics"
    /\ \E i \in DOMAIN members :
          /\ members[i].Status \in {"online", "busy"}
          /\ departmentStats[members[i].DepartmentID].ActiveMembers > 0
          /\ departmentStats[members[i].DepartmentID].RoleDistribution[members[i].Role] > 0

(* C24: after a recompute the stats of every department are those of the   *)
(* member map: total members the members of the department, active members *)
(* those of them that are online or busy, the histogram those of them per  *)
(* role.                                                                   *)
C24_StatsOfDepartment ==
    [][updateAllStatistics =>
          \A d \in DeptIds :
              LET inDept == {i \in DOMAIN members' : members'[i].DepartmentID = d}
              IN /\ departmentStats'[d].TotalMembers = Cardinality(inDept)
                 /\ departmentStats'[d].ActiveMembers =
                        Cardinality({i \in inDept : members'[i].Status \in {"online", "busy"}})
                 /\ \A r \in Roles :
                        departmentStats'[d].RoleDistribution[r] =
                            Cardinality({i \in inDept : members'[i].Role = r})]_vars

-----------------------------------------------------------------------------
(* The Start loops of the health checker and of the auto-scaler, with the  *)
(* registry lock.  Each loop waits in a select on the two contexts and its *)
(* ticker; a tick runs to its end before the loop selects again, and it    *)
(* waits for the registry lock wherever it calls the registry.  When a     *)
(* context is done and the ticker has fired, select takes either case.     *)

(* the context handed to Start is cancelled *)
Cancel ==
    /\ ~loops.cancelled
    /\ loops' = [loops EXCEPT !.cancelled = TRUE]
    /\ UNCHANGED <<config, scalingConfig, registry, now, ret, mu, calls, healthStatus, scaleCooldown, scaler>>

(* HealthChecker.Start, lines 69-70: the ticker fires *)
HealthTick ==
    /\ loops.health = "select"
    /\ now < MaxTime
    /\ now' = now + 1
    /\ loops' = [loops EXCEPT !.health = "ListMembers"]
    /\ UNCHANGED <<config, scalingConfig, registry, ret, mu, calls, healthStatus, scaleCooldown, scaler>>

(* HealthChecker.Start, lines 64-68 *)
HealthStop ==
    /\ loops.cancelled
    /\ loops.health = "select"
    /\ loops' = [loops EXCEPT !.health = "stopped"]
    /\ UNCHANGED <<config, scalingConfig, registry, now, ret, mu, calls, healthStatus, scaleCooldown, scaler>>

(* performHealthCheck without the test of lines 85-87 *)
HealthListMembersAll ==
    /\ loops.health = "ListMembers"
    /\ mu = 0
    /\ loops' = [loops EXCEPT !.health = "probe", !.pending = DOMAIN members]
    /\ UNCHANGED <<config, scalingConfig, registry, now, ret, mu, calls, healthStatus, scaleCooldown, scaler>>

(* performHealthCheck, lines 82-95: ListMembers under the read lock, then   *)
(* one goroutine for every member that is not offline                       *)
HealthListMembers ==
    /\ loops.health = "ListMembers"
    /\ mu = 0
    /\ loops' = [loops EXCEPT !.health = "probe",
                              !.pending = {i \in DOMAIN members : members[i].Status # "offline"}]
    /\ UNCHANGED <<config, scalingConfig, registry, now, ret, mu, calls, healthStatus, scaleCooldown, scaler>>

(* checkMemberHealth in its goroutine; UpdateMemberStatus, when the probe  *)
(* calls it, waits for the write lock, and finds nothing to update when    *)
(* the member was unregistered since it was listed                         *)
HealthProbe(memberID, healthy) ==
    /\ loops.health = "probe"
    /\ memberID \in loops.pending
    /\ healthStatus' = Put(healthStatus, memberID,
                           [ConsecutiveFails |-> ConsecutiveFails(memberID, healthy),
                            FailedChecks |-> FailedChecks(memberID, healthy),
                            IsHealthy |-> healthy])
    /\ IF memberID \notin DOMAIN members
       THEN /\ (~healthy /\ ConsecutiveFails(memberID, healthy) >= UnhealthyThreshold) => mu = 0
            /\ UNCHANGED <<members, departmentStats>>
       ELSE IF ProbedStatus(memberID, healthy) = ""
       THEN UNCHANGED <<members, departmentStats>>
       ELSE LET ms == [members EXCEPT ![memberID].Status = ProbedStatus(memberID, healthy)]
            IN /\ mu = 0
               /\ members' = ms
               /\ departmentStats' =
                      updateDepartmentStats(departmentStats, ms, members[memberID].DepartmentID)
    /\ ret' = Returned("checkMemberHealth", memberID, IF healthy THEN "" ELSE "Unhealthy")
    /\ loops' = [loops EXCEPT !.pending = @ \ {memberID}]
    /\ UNCHANGED <<config, scalingConfig, memberStats, tasks, now, mu, calls, scaleCooldown, scaler>>

(* performHealthCheck, line 97: wg.Wait() returns *)
HealthTickDone ==
    /\ loops.health = "probe"
    /\ loops.pending = {}
    /\ loops' = [loops EXCEPT !.health = "select"]
    /\ UNCHANGED <<config, scalingConfig, registry, now, ret, mu, calls, healthStatus, scaleCooldown, scaler>>

(* AutoScaler.Start, lines 58-59: the ticker fires *)
ScaleTick ==
    /\ loops.scale = "select"
    /\ loops' = [loops EXCEPT !.scale = "ListDepartments"]
    /\ UNCHANGED <<config, scalingConfig, registry, now, ret, mu, calls, healthStatus, scaleCooldown, scaler>>

(* AutoScaler.Start, lines 53-57 *)
ScaleStop ==
    /\ loops.cancelled
    /\ loops.scale = "select"
    /\ loops' = [loops EXCEPT !.scale = "stopped"]
    /\ UNCHANGED <<config, scalingConfig, registry, now, ret, mu, calls, healthStatus, scaleCooldown, scaler>>

(* checkAndScale, line 81: ListDepartments under the read lock *)
ScaleListDepartments ==
    /\ loops.scale = "ListDepartments"
    /\ mu = 0
    /\ loops' = [loops EXCEPT !.scale = "visit"]
    /\ UNCHANGED <<config, scalingConfig, registry, now, ret, mu, calls, healthStatus, scaleCooldown, scaler>>

(* checkAndScale, lines 84-101: the departments are visited *)
ScaleVisitEvaluate(departmentID) == loops.scale = "visit" /\ ScalerEvaluate(departmentID)

ScaleVisitPick == loops.scale = "visit" /\ ScalerPick

ScaleVisitCheck == loops.scale = "visit" /\ ScalerCheck

ScaleVisitDelete == loops.scale = "visit" /\ ScalerDelete

(* checkAndScale returns *)
ScaleTickDone ==
    /\ loops.scale = "visit"
    /\ scaler.pc = "idle"
    /\ loops' = [loops EXCEPT !.scale = "select"]
    /\ UNCHANGED <<config, scalingConfig, registry, now, ret, mu, calls, healthStatus, scaleCooldown, scaler>>

CancelNext ==
    \/ Cancel
    \/ HealthTick
    \/ HealthStop
    \/ HealthListMembers
    \/ \E i \in MemberIds, healthy \in BOOLEAN : HealthProbe(i, healthy)
    \/ HealthTickDone
    \/ ScaleTick
    \/ ScaleStop
    \/ ScaleListDepartments
    \/ \E d \in DeptIds : ScaleVisitEvaluate(d)
    \/ ScaleVisitPick
    \/ ScaleVisitCheck
    \/ ScaleVisitDelete
    \/ ScaleTickDone
    \/ \E in \in MemberInputs : LockedRegisterMember(in)
    \/ \E in \in RaceTaskInputs : CreateTaskLocked(1, in)

CancelSpec == Init /\ [][CancelNext]_vars

(* the next step of each loop, and of the call that holds the registry     *)
(* lock                                                                    *)
HealthLoopStep ==
    \/ HealthStop
    \/ HealthListMembers
    \/ \E i \in MemberIds, healthy \in BOOLEAN : HealthProbe(i, healthy)
    \/ HealthTickDone

ScaleLoopStep ==
    \/ ScaleStop
    \/ ScaleListDepartments
    \/ ScaleVisitPick
    \/ ScaleVisitCheck
    \/ ScaleVisitDelete
    \/ ScaleTickDone

LockHolderStep ==
    \/ \E k \in DOMAIN calls : mu = k /\ ReadLocked(k)
    \/ mu = ScalerLock /\ ScaleVisitDelete

(* C25: once the context is cancelled, each loop that has not stopped can  *)
(* go on towards its stop: the tick it is in can take its next step, or    *)
(* the call that holds the registry lock the tick waits for can go on to   *)
(* release it.                                                             *)
C25_CancelStops ==
    loops.cancelled =>
        /\ loops.health # "stopped" => (ENABLED HealthLoopStep \/ ENABLED LockHolderStep)
        /\ loops.scale # "stopped" => (ENABLED ScaleLoopStep \/ ENABLED LockHolderStep)

-----------------------------------------------------------------------------
(* C26: UnregisterMember and UpdateMemberStatus for a member that is not   *)
(* registered, and UpdateTaskStatus for a task that is not stored, return  *)
(* NotFound, publish no event and leave members, member stats, department  *)
(* stats and tasks as they were.                                           *)
C26_UnknownIdNotFound ==
    [][/\ \A i \in MemberIds :
             (UnregisterMember(i) /\ i \notin DOMAIN members) =>
                 /\ ret' = Returned("UnregisterMember", i, "NotFound")
                 /\ UNCHANGED registry
       /\ \A i \in MemberIds, st \in MemberStatuses :
             (UpdateMemberStatus(i, st) /\ i \notin DOMAIN members) =>
                 /\ ret' = Returned("UpdateMemberStatus", i, "NotFound")
                 /\ UNCHANGED registry
       /\ \A t \in TaskIds, st \in TaskStatuses :
             (UpdateTaskStatus(t, st, NilResults) /\ t \notin DOMAIN tasks) =>
                 /\ ret' = Returned("UpdateTaskStatus", t, "NotFound")
                 /\ UNCHANGED registry]_vars

(* a status update for a member that is not registered was refused, in a   *)
(* registry that has members and tasks                                     *)
C26_Witness ==
    /\ ret.op = "UpdateMemberStatus"
    /\ ret.err = "NotFound"
    /\ ret.event = ""
    /\ ret.id \notin DOMAIN members
    /\ DOMAIN members # {}
    /\ DOMAIN tasks # {}

-----------------------------------------------------------------------------
(* determineDepartment on its own: RouteTask is handed a task that names   *)
(* no department, under a configuration with department rules and a        *)
(* default department.  The task is the caller's; nothing is stored.       *)

ResolveConfigs ==
    {[RoutingConfig("load-based", FALSE, NoRules) EXCEPT
          !.DepartmentRules = rules, !.DefaultDepartment = default] :
        rules \in {NoRules,
                   [d \in {"dept-qa"} |-> <<KwLead>>],
                   [d \in DeptIds |-> IF d = "dept-dev" THEN <<KwBug>> ELSE <<KwLead>>]},
        default \in {"", "dept-qa"}}

ResolveTaskInputs ==
    {NewTask(1, "", "", {}, TxtFixLoginBug, TxtEmpty, "testing", "medium"),
     NewTask(2, "", "", {}, TxtLeadReview, TxtEmpty, "bug", "medium"),
     NewTask(3, "", "", {}, TxtFixLoginBug, TxtLeadReview, "", "medium"),
     NewTask(4, "", "", {}, TxtEmpty, TxtEmpty, "testing", "medium"),
     NewTask(5, "", "", {}, TxtEmpty, TxtEmpty, "", "medium"),
     NewTask(6, "", "", {}, TxtEmpty, TxtEmpty, "bug", "medium")}

(* RouteTask, lines 654-660 *)
determineDepartmentCall(in) ==
    /\ IF determineDepartment(config, in) = {}
       THEN ret' = Returned("determineDepartment", in.ID, "Unroutable")
       ELSE \E d \in determineDepartment(config, in) :
               ret' = [Returned("determineDepartment", in.ID, "") EXCEPT !.department = d]
    /\ now < MaxTime
    /\ now' = now + 1
    /\ UNCHANGED <<config, scalingConfig, monitors, registry, mu, calls>>

ResolveInit ==
    /\ config \in ResolveConfigs
    /\ members = [i \in {} |-> 0]
    /\ memberStats = [i \in {} |-> 0]
    /\ departmentStats =
           [d \in DeptIds |-> [TotalMembers |-> 0, ActiveMembers |-> 0,
                               RoleDistribution |-> [r \in Roles |-> 0]]]
    /\ tasks = [i \in {} |-> 0]
    /\ now = 1
    /\ ret = NoReturn
    /\ mu = 0
    /\ calls = [k \in {} |-> 0]
    /\ healthStatus = [i \in {} |-> 0]
    /\ scaleCooldown = [d \in {} |-> 0]
    /\ scaler = ScalerIdle
    /\ loops = LoopsStarted
    /\ scalingConfig = DefaultScalingConfig

ResolveNext == \E in \in ResolveTaskInputs : determineDepartmentCall(in)

ResolveSpec == ResolveInit /\ [][ResolveNext]_vars

(* the order in which the configuration lists the departments' rules *)
ConfigurationOrder == <<"dept-dev", "dept-qa">>

(* the department the resolution order gives, "" for Unroutable *)
ResolvedDepartment(c, task) ==
    LET matching == {n \in DOMAIN ConfigurationOrder :
                        /\ ConfigurationOrder[n] \in DOMAIN c.DepartmentRules
                        /\ \E k \in DOMAIN c.DepartmentRules[ConfigurationOrder[n]] :
                              MentionsKeyword(task, c.DepartmentRules[ConfigurationOrder[n]][k])}
    IN IF matching # {}
       THEN ConfigurationOrder[CHOOSE n \in matching : \A m \in matching : n <= m]
       ELSE IF task.Type \in DOMAIN TaskTypeDept THEN TaskTypeDept[task.Type]
       ELSE c.DefaultDepartment

(* C27: a task without department resolves to the first department, in     *)
(* configuration order, one of whose keywords its title or description     *)
(* mentions, else to the department of its type, else to the default       *)
(* department, else the call fails as Unroutable; the same task under the  *)
(* same configuration always resolves to the same department.              *)
C27_ResolutionOrder ==
    [][\A in \in ResolveTaskInputs :
          determineDepartmentCall(in) =>
              /\ ret'.department = ResolvedDepartment(config, in)
              /\ ret'.err = IF ResolvedDepartment(config, in) = "" THEN "Unroutable" ELSE ""]_vars

-----------------------------------------------------------------------------
(* what the claim asks of the member a task is assigned to: the task's      *)
(* department, online or busy, room for one more task, every required      *)
(* skill, every keyword of its role's rule in the task's text, the pinned  *)
(* role if the task pins one                                               *)
SuitsTask(member, task) ==
    /\ member.DepartmentID = task.DepartmentID
    /\ member.Status \in {"online", "busy"}
    /\ Len(member.CurrentTasks) < member.MaxConcurrent
    /\ \A skill \in task.RequiredSkills :
          \E memberSkill \in member.Specializations : ToLower(memberSkill) = ToLower(skill)
    /\ member.Role \in DOMAIN config.RoleRules =>
          \A n \in DOMAIN config.RoleRules[member.Role] :
              \/ Contains(ToLower(task.Title), ToLower(config.RoleRules[member.Role][n]))
              \/ Contains(ToLower(task.Description), ToLower(config.RoleRules[member.Role][n]))
    /\ task.AssignedRole # "" => member.Role = task.AssignedRole

(* this step appends task t to the list of member i and names i in the task *)
GetsTask(i, t) ==
    /\ i \in DOMAIN members
    /\ i \in DOMAIN members'
    /\ t \in DOMAIN tasks'
    /\ tasks'[t].AssignedMember = i
    /\ members'[i].CurrentTasks = Append(members[i].CurrentTasks, t)

(* C28: with fallback off, the member a task is assigned to is, at the     *)
(* moment the task is appended to its list, a member of the task's         *)
(* department that is online or busy, has room, has the required skills,   *)
(* matches its role's rule and has the pinned role.                        *)
C28_AssignedMemberSuits ==
    [][~config.FallbackEnabled =>
          /\ \A in \in TaskInputs, i \in MemberIds :
                (CreateTask(in) /\ in.DepartmentID \in DeptIds /\ GetsTask(i, ret'.id))
                    => SuitsTask(members[i], QueuedTask(in))
          /\ \A k \in CallIds, i \in MemberIds :
                (ReassignAssign(k) /\ GetsTask(i, calls[k].taskID))
                    => SuitsTask(members[i], tasks[calls[k].taskID])]_vars

-----------------------------------------------------------------------------
(* C29: ReassignTask takes the task off the list of the member it was      *)
(* assigned to and sets that member online only if it was busy and is now  *)
(* under capacity, so that an offline or unhealthy member stays as it was; *)
(* when the routing that follows fails, the call returns an error and the  *)
(* task is queued, with no member and no role, and in no member's list.    *)
C29_ReassignDetaches ==
    [][\A t \in TaskIds :
          (ReassignTask(t) /\ t \in DOMAIN tasks) =>
              LET old == tasks[t].AssignedMember
              IN /\ old \in DOMAIN members =>
                        /\ members[old].Status \in {"offline", "unhealthy"} =>
                               members'[old].Status = members[old].Status
                        /\ tasks'[t].AssignedMember # old =>
                               /\ members'[old].CurrentTasks =
                                      RemoveFirst(members[old].CurrentTasks, t)
                               /\ (/\ members[old].Status = "busy"
                                   /\ Len(members'[old].CurrentTasks) < members[old].MaxConcurrent)
                                      => members'[old].Status = "online"
                 /\ ret'.err # "" =>
                        /\ tasks'[t].Status = "queued"
                        /\ tasks'[t].AssignedMember = 0
                        /\ tasks'[t].AssignedRole = ""
                        /\ \A i \in DOMAIN members' :
                              \A n \in DOMAIN members'[i].CurrentTasks :
                                  members'[i].CurrentTasks[n] # t]_vars

-----------------------------------------------------------------------------
(* The result maps of tasks: tasks are created with generated ids and      *)
(* updated with every status and every result patch.                       *)

ResultsMemberInputs == {NewMember(2, "dept-dev", "developer", 1)}

ResultsTaskInputs == {in \in RaceTaskInputs : in.DepartmentID = "dept-dev"}

ResultsStatuses == {"in_progress", "completed"}

ResultsNext ==
    \/ \E in \in ResultsMemberInputs : RegisterMember(in)
    \/ \E in \in ResultsTaskInputs : CreateTask(in)
    \/ \E t \in TaskIds, st \in ResultsStatuses, result \in ResultPatches :
          UpdateTaskStatus(t, st, result)

ResultsSpec == Init /\ [][ResultsNext]_vars

(* C30: an UpdateTaskStatus call on a stored task leaves the task's        *)
(* results with every key of the patch at the patch's value and every      *)
(* other key as it was, present or absent; merging the same patch into     *)
(* the results once more changes nothing; a nil patch leaves the results   *)
(* as they were.                                                           *)
C30_MergeAdditive ==
    [][\A t \in TaskIds, st \in ResultsStatuses, result \in ResultPatches :
          (UpdateTaskStatus(t, st, result) /\ t \in DOMAIN tasks) =>
              LET old == tasks[t].Results
                  new == tasks'[t].Results
              IN /\ result.nil => new = old
                 /\ ~result.nil =>
                        /\ ~new.nil
                        /\ \A k \in DOMAIN result.kv :
                              k \in DOMAIN new.kv /\ new.kv[k] = result.kv[k]
                        /\ \A k \in ResultKeys \ DOMAIN result.kv :
                              IF old.nil \/ k \notin DOMAIN old.kv
                              THEN k \notin DOMAIN new.kv
                              ELSE k \in DOMAIN new.kv /\ new.kv[k] = old.kv[k]
                 /\ mergeResults(new, result) = new]_vars

(* an UpdateTaskStatus call has returned on a task whose results hold both *)
(* keys with different values                                              *)
C30_Witness ==
    \E t \in DOMAIN tasks :
        /\ ret = Published("UpdateTaskStatus", t, "Updated")
        /\ ~tasks[t].Results.nil
        /\ DOMAIN tasks[t].Results.kv = ResultKeys
        /\ tasks[t].Results.kv["output"] # tasks[t].Results.kv["error"]

-----------------------------------------------------------------------------
(* C31: when findScaleDownCandidate returns a lead, the department has     *)
(* more members than MinMembers, so that removing the lead leaves at least *)
(* MinMembers; with MinMembers members or fewer it returns a non-lead or   *)
(* nobody.                                                                 *)
C31_LeadKeepsMinimum ==
    [][(ScalerPick /\ scaler'.pc = "remove" /\ members[scaler'.candidate].IsLead) =>
          countDepartmentMembers(members, scaler.dept) - 1
              >= Departments[scaler.dept].MinMembers]_vars

-----------------------------------------------------------------------------
(* Scale-up: the auto-scaler with thresholds that one task in progress on  *)
(* one active member exceeds, with and without role quotas.                *)

ScaleUpConfigs ==
    {[DefaultScalingConfig EXCEPT !.ScaleUpThreshold = 15, !.ScaleDownThreshold = 10,
                                  !.RoleScaling = q] :
        q \in {NoRoleScaling, [r \in {"qa"} |-> 1],
               [r \in {"developer", "lead_dev"} |-> 1]}}
    \cup {[DefaultScalingConfig EXCEPT !.ScaleUpThreshold = 15, !.ScaleDownThreshold = 10,
                                       !.MaxMembersPerDept = 1]}

ScaleUpInit ==
    /\ config \in Configs
    /\ members = [i \in {} |-> 0]
    /\ memberStats = [i \in {} |-> 0]
    /\ departmentStats =
           [d \in DeptIds |-> [TotalMembers |-> 0, ActiveMembers |-> 0,
                               RoleDistribution |-> [r \in Roles |-> 0]]]
    /\ tasks = [i \in {} |-> 0]
    /\ now = 1
    /\ ret = NoReturn
    /\ mu = 0
    /\ calls = [k \in {} |-> 0]
    /\ healthStatus = [i \in {} |-> 0]
    /\ scaleCooldown = [d \in {} |-> 0]
    /\ scaler = ScalerIdle
    /\ loops = LoopsStarted
    /\ scalingConfig \in ScaleUpConfigs

ScaleUpNext ==
    \/ \E d \in DeptIds : ScalerEvaluate(d)
    \/ ScalerScaleUp
    \/ ScalerPick
    \/ ScalerCheck
    \/ ScalerDelete
    \/ \E in \in MemberInputs : LockedRegisterMember(in)
    \/ \E in \in RaceTaskInputs : GrantedCreateTask(in)
    \/ \E t \in TaskIds, st \in ScalerStatuses : LockedUpdateTaskStatus(t, st, NilResults)

ScaleUpSpec == ScaleUpInit /\ [][ScaleUpNext]_vars

(* the roles with fewer members in the department than their quota *)
UnmetQuotas(d) ==
    {r \in DOMAIN scalingConfig.RoleScaling :
        Cardinality({i \in DOMAIN members : members[i].DepartmentID = d /\ members[i].Role = r})
            < scalingConfig.RoleScaling[r]}

(* the default roles of the department's type with the fewest members in   *)
(* the department                                                          *)
LeastPopulatedDefaults(d) ==
    LET roles == RoleMap(Departments[d].Type)
        n(r) == Cardinality({i \in DOMAIN members :
                                members[i].DepartmentID = d /\ members[i].Role = r})
    IN {roles[k] : k \in {k \in DOMAIN roles : \A j \in DOMAIN roles : n(roles[k]) <= n(roles[j])}}

-----------------------------------------------------------------------------
(* The two load strategies as functions of the candidate list: members     *)
(* with light and with very long task lists, every non-empty list of       *)
(* candidates among them.                                                  *)

LoadInputs == {0, 1, 998, 999, 1000}

LoadedMember(id, load) ==
    [NewMember(id, "dept-dev", "developer", 2000) EXCEPT
        !.CurrentTasks = [n \in 1..load |-> 1]]

SelectConfigs ==
    {RoutingConfig(strategy, FALSE, NoRules) : strategy \in {"round-robin", "load-based"}}

SelectInit ==
    /\ config \in SelectConfigs
    /\ \E l1 \in LoadInputs, l2 \in LoadInputs :
          members = [i \in MemberIds |-> LoadedMember(i, IF i = 1 THEN l1 ELSE l2)]
    /\ memberStats = [i \in MemberIds |-> NewMemberStats]
    /\ departmentStats =
           [d \in DeptIds |-> [TotalMembers |-> 0, ActiveMembers |-> 0,
                               RoleDistribution |-> [r \in Roles |-> 0]]]
    /\ tasks = [i \in {} |-> 0]
    /\ now = 1
    /\ ret = NoReturn
    /\ mu = 0
    /\ calls = [k \in {} |-> 0]
    /\ healthStatus = [i \in {} |-> 0]
    /\ scaleCooldown = [d \in {} |-> 0]
    /\ scaler = ScalerIdle
    /\ loops = LoopsStarted
    /\ scalingConfig = DefaultScalingConfig

(* RouteTask, lines 675-678: the member selected among the candidates, 0   *)
(* for nil                                                                 *)
selectMemberCall(in, candidates) ==
    /\ \E i \in selectMember(config, members, memberStats, in, candidates) :
          ret' = Returned("selectMember", i, "")
    /\ now < MaxTime
    /\ now' = now + 1
    /\ UNCHANGED <<config, scalingConfig, registry, monitors, mu, calls>>

SelectNext ==
    \E in \in RaceTaskInputs, candidates \in SUBSET MemberIds \ {{}} :
        selectMemberCall(in, candidates)

SelectSpec == SelectInit /\ [][SelectNext]_vars

(* C33: on every non-empty candidate list round-robin and load-based each  *)
(* return a member, one of the candidates whose task list is the shortest. *)
C33_LeastLoaded ==
    [][\A in \in RaceTaskInputs, candidates \in SUBSET MemberIds \ {{}} :
          selectMemberCall(in, candidates) =>
              /\ ret'.id \in candidates
              /\ \A j \in candidates :
                    Len(members[ret'.id].CurrentTasks) <= Len(members[j].CurrentTasks)]_vars

-----------------------------------------------------------------------------
(* C34: a probe of a member leaves the member's failed-check counter one   *)
(* higher when the probe failed and as it was when the probe succeeded, 0  *)
(* standing for a member not tracked yet: the counter is the number of     *)
(* failed probes so far and never goes down; a successful probe resets the *)
(* consecutive-failure counter only.                                       *)
C34_FailedChecksCumulative ==
    [][\A i \in MemberIds, healthy \in BOOLEAN :
          checkMemberHealth(i, healthy) =>
              LET before == IF i \in DOMAIN healthStatus
                            THEN healthStatus[i].FailedChecks ELSE 0
              IN /\ healthStatus'[i].FailedChecks = before + (IF healthy THEN 0 ELSE 1)
                 /\ healthy => healthStatus'[i].ConsecutiveFails = 0]_vars

-----------------------------------------------------------------------------
(* C35: right after a statistics recompute every registered member's       *)
(* stats give as current load the length of the member's task list,        *)
(* whatever assignments and reassignments came before.                     *)
C35_RecomputeCatchesUp ==
    [][updateAllStatistics =>
          \A i \in DOMAIN members' :
              /\ i \in DOMAIN memberStats'
              /\ memberStats'[i].CurrentLoad = Len(members'[i].CurrentTasks)]_vars

-----------------------------------------------------------------------------
(* The ticks of the health checker with members that go offline and        *)
(* unhealthy in between.                                                   *)

ProbeNext ==
    \/ HealthTick
    \/ HealthListMembers
    \/ \E i \in MemberIds, healthy \in BOOLEAN : HealthProbe(i, healthy)
    \/ HealthTickDone
    \/ \E in \in MemberInputs : LockedRegisterMember(in)
    \/ \E i \in MemberIds, st \in MemberStatuses : LockedUpdateMemberStatus(i, st)

ProbeSpec == Init /\ [][ProbeNext]_vars

(* C36: a tick of the health checker starts a probe for the members that   *)
(* are not offline, the unhealthy ones included, and for no other; a       *)
(* member is probed only while its probe is outstanding and its probe is   *)
(* then over, so it is probed once; the probe changes the counters and the *)
(* status of no other member; and the tick is over only when no probe is   *)
(* outstanding.                                                            *)
C36_OneProbePerMember ==
    [][/\ HealthListMembers =>
             loops'.pending = {i \in DOMAIN members :
                                  members[i].Status \in {"online", "busy", "unhealthy"}}
       /\ \A i \in MemberIds, healthy \in BOOLEAN :
             HealthProbe(i, healthy) =>
                 /\ i \in loops.pending
                 /\ loops'.pending = loops.pending \ {i}
                 /\ \A j \in MemberIds \ {i} :
                       /\ j \in DOMAIN healthStatus' <=> j \in DOMAIN healthStatus
                       /\ j \in DOMAIN healthStatus => healthStatus'[j] = healthStatus[j]
                       /\ j \in DOMAIN members' <=> j \in DOMAIN members
                       /\ j \in DOMAIN members => members'[j] = members[j]
       /\ HealthTickDone => loops.pending = {}
       /\ (loops.health = "probe" /\ loops'.health # "probe") => HealthTickDone]_vars

(* a tick has listed the members and started the probe of the unhealthy    *)
(* member and none for the offline one                                     *)
C36_Witness ==
    /\ loops.health = "probe"
    /\ \E i \in DOMAIN members, j \in DOMAIN members :
          /\ members[i].Status = "unhealthy"
          /\ members[j].Status = "offline"
          /\ loops.pending = {i}

-----------------------------------------------------------------------------
(* the positions of a member's list that hold the task *)
ListedAt(i, t) == {n \in DOMAIN members[i].CurrentTasks : members[i].CurrentTasks[n] = t}

(* C37: between calls a task id is in the list of at most one member, at   *)
(* most once, and it is in the list of member M exactly when the stored    *)
(* task has M as its assigned member and is neither completed nor failed.  *)
C37_CrossReferences ==
    \A t \in TaskIds :
        /\ \A i \in DOMAIN members, j \in DOMAIN members :
              (ListedAt(i, t) # {} /\ ListedAt(j, t) # {}) => i = j
        /\ \A i \in DOMAIN members :
              /\ Cardinality(ListedAt(i, t)) <= 1
              /\ ListedAt(i, t) # {} <=>
                     /\ t \in DOMAIN tasks
                     /\ tasks[t].AssignedMember = i
                     /\ tasks[t].Status \notin {"completed", "failed"}

-----------------------------------------------------------------------------
(* the tasks whose assigned member is not registered or does not list them *)
Dangling(ts, ms) ==
    {t \in DOMAIN ts :
        /\ ts[t].AssignedMember # 0
        /\ \/ ts[t].AssignedMember \notin DOMAIN ms
           \/ \A n \in DOMAIN ms[ts[t].AssignedMember].CurrentTasks :
                 ms[ts[t].AssignedMember].CurrentTasks[n] # t}

(* C38: a RegisterMember call with the id of a registered member leaves    *)
(* the list of current tasks stored under that id as it was, and neither   *)
(* it nor a CreateTask call with the id of a stored task leaves a task     *)
(* assigned to a member that listed it before and does not list it now.    *)
C38_IdsKeepWork ==
    [][/\ \A in \in MemberInputs :
             (RegisterMember(in) /\ in.ID \in DOMAIN members) =>
                 /\ members'[in.ID].CurrentTasks = members[in.ID].CurrentTasks
                 /\ Dangling(tasks', members') \subseteq Dangling(tasks, members)
       /\ \A in \in TaskInputs :
             (CreateTask(in) /\ in.ID \in DOMAIN tasks) =>
                 Dangling(tasks', members') \subseteq Dangling(tasks, members)]_vars

-----------------------------------------------------------------------------
(* The registry calls, the ticks of the health checker and of the          *)
(* auto-scaler and the statistics updater, interleaved, each waiting for   *)
(* the registry lock where its code takes it.  A probe of the health       *)
(* checker holds the checker's lock from its first line to its return, so  *)
(* the probes of a tick run one after the other; a tick of the auto-scaler *)
(* holds the scaler's lock from its first line to its return.  Neither     *)
(* lock is taken by a call of the registry.                                *)
LockedUpdateAllStatistics == mu = 0 /\ updateAllStatistics

WaitNext ==
    \/ HealthTick
    \/ HealthListMembers
    \/ \E i \in MemberIds, healthy \in BOOLEAN : HealthProbe(i, healthy)
    \/ HealthTickDone
    \/ ScaleTick
    \/ ScaleListDepartments
    \/ \E d \in DeptIds : ScaleVisitEvaluate(d)
    \/ ScaleVisitPick
    \/ ScaleVisitCheck
    \/ ScaleVisitDelete
    \/ ScaleTickDone
    \/ \E in \in MemberInputs : LockedRegisterMember(in)
    \/ \E in \in RaceTaskInputs : CreateTaskLocked(1, in)
    \/ LockedUpdateAllStatistics

WaitSpec == Init /\ [][WaitNext]_vars

(* C39: no thread waits for ever: whenever the registry lock is held, the  *)
(* call that holds it can take its next step towards releasing it, and a   *)
(* tick of the health checker or of the auto-scaler that has begun can     *)
(* take its next step or waits for a lock holder that can.                 *)
C39_NoDeadlock ==
    /\ mu # 0 => ENABLED LockHolderStep
    /\ loops.health # "select" => (ENABLED HealthLoopStep \/ ENABLED LockHolderStep)
    /\ loops.scale # "select" => (ENABLED ScaleLoopStep \/ ENABLED LockHolderStep)

-----------------------------------------------------------------------------
(* C40: the member map and the member-stats map have the same keys: every  *)
(* registered member has a stats entry, which is the entry the completion  *)
(* of one of its tasks reads, and no stats entry is kept for a member that *)
(* is not registered.                                                      *)
C40_SameKeys ==
    /\ DOMAIN members = DOMAIN memberStats
    /\ \A t \in DOMAIN tasks :
          tasks[t].AssignedMember \in DOMAIN members =>
              tasks[t].AssignedMember \in DOMAIN memberStats

(* a member was unregistered after a task of a member that is still        *)
(* registered was finished                                                 *)
C40_Witness ==
    /\ ret.op = "UnregisterMember"
    /\ ret.event = "Deleted"
    /\ \E i \in DOMAIN members : i \in DOMAIN memberStats /\ memberStats[i].TotalTasks > 0

====
